---- MODULE Spec2Model ----
(***************************************************************************)
(* Model of two passes of the circuit compiler:                            *)
(*   - builder/hint_normalize.rs : the hint-normalization rewrite          *)
(*   - layering/layer_layout.rs  : the layer layout solver                 *)
(* Three specifications share the module: SpecHint (one source instruction *)
(* or constraint rewritten by the builder and evaluated over a small prime *)
(* field), SpecMerge (merge_layouts run step by step) and SpecSolve (the   *)
(* memoised recursive solver with its call stack).                         *)
(***************************************************************************)
EXTENDS Integers, Sequences, FiniteSets, TLC

VARIABLES
    \* ---- hint normalization (SpecHint) ----
    bld,        \* the builder: output instructions, constraints, marks, values
    in_insns,   \* source instructions handed to the pass so far
    hres,       \* what transform_in_to_out / transform_in_con_to_out returned
    hpc,        \* "ready" | "pushed" | "con" | "err" | "panic" | "returned"
    pre,        \* the builder as it was when the current transform was entered
    oracle,     \* the values the hint oracle / random source gave to this step
    \* ---- merge_layouts (SpecMerge) ----
    m_s,        \* argument s: the placement groups
    m_add,      \* argument additional
    m_res,      \* local res
    m_order,    \* local order (indices into s), the part not yet placed
    m_fill,     \* the loop over additional: [k: elements placed, slot: local slot]
    m_pc,       \* "start" | "groups" | "done" | "panic_overflow" | "panic_pow2" | "panic_align"
    m_log,      \* per placed group: [g, off, appended]
    \* ---- layout solver (SpecSolve) ----
    ctx,        \* which compile context (index into Contexts) is loaded
    circuits,   \* self.circuits: circuit id -> IrContext
    layer_req_to_layout, \* memo: LayerReq -> handle
    layer_layout_pool,   \* sequence of LayerLayout, handle = index - 1
    stack,      \* active solve_layer_layout calls, innermost last
    ret,        \* handle returned by the call that returned last
    s_pc,       \* "prepare" | "idle" | "run" | "panic_..."
    s_log       \* the driver's calls that returned: [req, id]

hvars == <<bld, in_insns, hres, hpc, pre, oracle>>
mvars == <<m_s, m_add, m_res, m_order, m_fill, m_pc, m_log>>
svars == <<ctx, circuits, layer_req_to_layout, layer_layout_pool, stack, ret, s_pc, s_log>>
vars  == <<hvars, mvars, svars>>

-----------------------------------------------------------------------------
(* Generic helpers *)

Range(f) == {f[i] : i \in DOMAIN f}

Max(a, b) == IF a >= b THEN a ELSE b

RECURSIVE SeqSum(_)
SeqSum(q) == IF q = <<>> THEN 0 ELSE Head(q) + SeqSum(Tail(q))

-----------------------------------------------------------------------------
(* The prime field F (crate::field::Field).  The code runs over M31; the   *)
(* model runs over a small prime picked from Primes by FieldIdx.           *)

Primes == <<3, 5, 7, 11>>
FieldIdx == 2
P == Primes[FieldIdx]
F == 0 .. (P - 1)

FAdd(a, b) == (a + b) % P
FMul(a, b) == (a * b) % P
FNeg(a) == (P - a) % P
FSub(a, b) == FAdd(a, FNeg(b))
FOne == 1 % P
FZero == 0
\* Field::inv(): None for zero
FInv(a) == CHOOSE b \in F : FMul(a, b) = FOne
FDiv(a, b) == FMul(a, FInv(b))

-----------------------------------------------------------------------------
(* IR values.  An instruction is a record with a tag and the fields of the *)
(* Rust variant (ir::source::Instruction, ir::hint_normalized::Instruction) *)

Coef_Constant(c) == [kind |-> "Constant", c |-> c]
Coef_Random == [kind |-> "Random"]

LinCombTerm(coef, var) == [coef |-> coef, var |-> var]
I_LinComb(terms, constant) == [tag |-> "LinComb", terms |-> terms, constant |-> constant]
I_Mul(vs) == [tag |-> "Mul", vars |-> vs]
I_Hint(hint_id, inputs, num_outputs) ==
    [tag |-> "Hint", hint_id |-> hint_id, inputs |-> inputs, num_outputs |-> num_outputs]
I_ConstantOrRandom(coef) == [tag |-> "ConstantOrRandom", coef |-> coef]
I_SubCircuitCall(id, inputs, num_outputs) ==
    [tag |-> "SubCircuitCall", sub_circuit_id |-> id, inputs |-> inputs, num_outputs |-> num_outputs]
I_Div(x, y, checked) == [tag |-> "Div", x |-> x, y |-> y, checked |-> checked]
I_BoolBinOp(x, y, op) == [tag |-> "BoolBinOp", x |-> x, y |-> y, op |-> op]
I_IsZero(x) == [tag |-> "IsZero", x |-> x]
I_Commit(x) == [tag |-> "Commit", x |-> x]
I_UnconstrainedBinOp(x, y, op) == [tag |-> "UnconstrainedBinOp", x |-> x, y |-> y, op |-> op]
I_UnconstrainedSelect(cond, if_true, if_false) ==
    [tag |-> "UnconstrainedSelect", cond |-> cond, if_true |-> if_true, if_false |-> if_false]

NoInsn == [tag |-> "none"]

\* the tags of the Hint-Normalized IR
OutTags == {"LinComb", "Mul", "Hint", "ConstantOrRandom", "SubCircuitCall"}

BoolBinOpTypes == {"And", "Or", "Xor"}

UnconstrainedBinOpTypes ==
    {"Div", "Pow", "IntDiv", "Mod", "ShiftL", "ShiftR", "LesserEq", "GreaterEq",
     "Lesser", "Greater", "Eq", "NotEq", "BoolOr", "BoolAnd", "BitOr", "BitAnd", "BitXor"}

-----------------------------------------------------------------------------
(* Evaluation of the unconstrained operators and of the builtin hints.     *)
(* Both are computed by the same functions outside this file; a result is  *)
(* [ok, v].  Integer-style operators work on the canonical representative. *)

Ok(v) == [ok |-> TRUE, v |-> v]
Fail == [ok |-> FALSE, v |-> 0]

RECURSIVE IntPow(_, _)
IntPow(a, n) == IF n = 0 THEN 1 ELSE a * IntPow(a, n - 1)

B2F(b) == IF b THEN FOne ELSE FZero

RECURSIVE BitOp(_, _, _)
BitOp(op, a, b) ==
    IF a = 0 /\ b = 0 THEN 0
    ELSE LET x == a % 2
             y == b % 2
             bit == CASE op = "BitOr"  -> IF x + y > 0 THEN 1 ELSE 0
                      [] op = "BitAnd" -> x * y
                      [] OTHER         -> (x + y) % 2
         IN  bit + 2 * BitOp(op, a \div 2, b \div 2)

UnconstrainedBinOpEval(op, x, y) ==
    CASE op = "Div"       -> IF y = 0 THEN Ok(FZero) ELSE Ok(FDiv(x, y))
      [] op = "Pow"       -> Ok(IntPow(x, y) % P)
      [] op = "IntDiv"    -> IF y = 0 THEN Fail ELSE Ok(x \div y)
      [] op = "Mod"       -> IF y = 0 THEN Fail ELSE Ok(x % y)
      [] op = "ShiftL"    -> Ok((x * IntPow(2, y)) % P)
      [] op = "ShiftR"    -> Ok(x \div IntPow(2, y))
      [] op = "LesserEq"  -> Ok(B2F(x <= y))
      [] op = "GreaterEq" -> Ok(B2F(x >= y))
      [] op = "Lesser"    -> Ok(B2F(x < y))
      [] op = "Greater"   -> Ok(B2F(x > y))
      [] op = "Eq"        -> Ok(B2F(x = y))
      [] op = "NotEq"     -> Ok(B2F(x # y))
      [] op = "BoolOr"    -> Ok(B2F(x # 0 \/ y # 0))
      [] op = "BoolAnd"   -> Ok(B2F(x # 0 /\ y # 0))
      [] OTHER            -> Ok(BitOp(op, x, y) % P)

\* the honest value of a hint: [ok, out] with out the sequence of outputs
HintEval(hint_id, ins) ==
    CASE hint_id = "Select" -> [ok |-> TRUE, out |-> <<IF ins[1] # 0 THEN ins[2] ELSE ins[3]>>]
      [] hint_id = "Custom" -> [ok |-> TRUE, out |-> <<FAdd(ins[1], ins[2]), FMul(ins[1], ins[2])>>]
      [] OTHER -> LET r == UnconstrainedBinOpEval(hint_id, ins[1], ins[2])
                  IN  [ok |-> r.ok, out |-> <<r.v>>]

\* stand-in for the callee of a SubCircuitCall: one output
SubCircuitEval(id, ins) == <<FAdd(FMul(ins[1], ins[2]), id % P)>>

-----------------------------------------------------------------------------
(* The builder (super::basic::Builder) as far as this pass uses it.        *)
(*   insns  output circuit's instructions, in order                        *)
(*   cons   variables asserted zero (assert, and the rewritten constraints) *)
(*   marks  variables handed to mark                                       *)
(*   vals   value of every output variable on the evaluation at hand       *)
(*   cval   constant_value of every output variable: {} or {c}             *)
(*   honest every hint output so far equals the hint's honest value        *)
(*   hinterr some hint had no honest value (its evaluation failed)         *)

Val(vals, v) == IF v = 0 THEN FOne ELSE vals[v]
Vals(vals, vs) == [i \in DOMAIN vs |-> Val(vals, vs[i])]

constant_value(B, v) == B.cval[v]

RECURSIVE LinCombEval(_, _)
LinCombEval(terms, vals) ==
    IF terms = <<>> THEN 0
    ELSE FAdd(FMul(Head(terms).coef, Val(vals, Head(terms).var)), LinCombEval(Tail(terms), vals))

RECURSIVE MulEval(_, _)
MulEval(vs, vals) ==
    IF vs = <<>> THEN FOne ELSE FMul(Val(vals, Head(vs)), MulEval(Tail(vs), vals))

\* values of the variables an output instruction defines; orc: oracle values
OutEval(insn, vals, orc) ==
    CASE insn.tag = "LinComb" -> <<FAdd(LinCombEval(insn.terms, vals), insn.constant)>>
      [] insn.tag = "Mul" -> <<MulEval(insn.vars, vals)>>
      [] insn.tag = "Hint" -> SubSeq(orc, 1, insn.num_outputs)
      [] insn.tag = "ConstantOrRandom" ->
            IF insn.coef.kind = "Constant" THEN <<insn.coef.c>> ELSE <<orc[1]>>
      [] OTHER -> SubCircuitEval(insn.sub_circuit_id, Vals(vals, insn.inputs))

\* execute_out: the variables an output instruction adds to the builder
execute_out(B, insn, orc) ==
    LET new == OutEval(insn, B.vals, orc)
        known == IF insn.tag = "ConstantOrRandom" /\ insn.coef.kind = "Constant"
                 THEN {insn.coef.c} ELSE {}
        hint == IF insn.tag = "Hint"
                THEN HintEval(insn.hint_id, Vals(B.vals, insn.inputs))
                ELSE [ok |-> TRUE, out |-> new]
    IN  [B EXCEPT !.vals = B.vals \o new,
                  !.cval = B.cval \o [i \in DOMAIN new |-> known],
                  !.honest = B.honest /\ hint.ok /\ hint.out = new,
                  !.hinterr = B.hinterr \/ ~hint.ok]

\* push_insn: append to the output circuit and execute; returns the id of the
\* variable it allocated, which is Last of the builder after it
push_insn(B, insn, orc) == execute_out([B EXCEPT !.insns = Append(B.insns, insn)], insn, orc)

Last(B) == Len(B.vals)

assert(B, v) == [B EXCEPT !.cons = Append(B.cons, v)]
mark(B, v) == [B EXCEPT !.marks = Append(B.marks, v)]

-----------------------------------------------------------------------------
(* builder/hint_normalize.rs: the helpers of impl Builder (lines 26-88).   *)
(* A helper is written as the steps it performs on the builder, given n,   *)
(* the number of variables allocated before it runs: every push here       *)
(* allocates exactly one variable, so the k-th push returns n + k.         *)

Push(insn) == [k |-> "push", insn |-> insn, var |-> 0]
Assert_(v) == [k |-> "assert", insn |-> NoInsn, var |-> v]
Mark_(v) == [k |-> "mark", insn |-> NoInsn, var |-> v]

push_const(c) == Push(I_ConstantOrRandom(Coef_Constant(c)))

push_add(a, b) == Push(I_LinComb(<<LinCombTerm(FOne, a), LinCombTerm(FOne, b)>>, FZero))

push_sub(a, b) == Push(I_LinComb(<<LinCombTerm(FOne, a), LinCombTerm(FNeg(FOne), b)>>, FZero))

push_mul(a, b) == Push(I_Mul(<<a, b>>))

copy(a) == I_LinComb(<<LinCombTerm(FOne, a)>>, FZero)

\* three pushes; returns n + 3
bool_cond(n, a) ==
    LET one == n + 1
        a_minus_one == n + 2
    IN  <<push_const(FOne), push_sub(a, one), push_mul(a, a_minus_one)>>

assert_bool(n, a) == bool_cond(n, a) \o <<Assert_(n + 3)>>

mark_bool(n, a) == bool_cond(n, a) \o <<Mark_(n + 3)>>

\* the builder after the steps; orc feeds the one Hint among them
RECURSIVE ApplySteps(_, _, _)
ApplySteps(B, steps, orc) ==
    IF steps = <<>> THEN B
    ELSE LET st == Head(steps)
             B1 == CASE st.k = "push"   -> push_insn(B, st.insn, orc)
                     [] st.k = "assert" -> assert(B, st.var)
                     [] OTHER           -> mark(B, st.var)
         IN  ApplySteps(B1, Tail(steps), orc)

-----------------------------------------------------------------------------
(* transform_in_to_out (lines 91-261), one operator per match arm.  The    *)
(* result is [steps, res, err, panic]: what was done to the builder before *)
(* returning, the returned instruction (Ok), the message (Err), a panic.   *)

TOk(steps, insn) == [steps |-> steps, res |-> insn, err |-> "", panic |-> FALSE]
TErr(steps, msg) == [steps |-> steps, res |-> NoInsn, err |-> msg, panic |-> FALSE]
TPanic(steps, msg) == [steps |-> steps, res |-> NoInsn, err |-> msg, panic |-> TRUE]

Some(S) == CHOOSE c \in S : TRUE

\* transform_Div_literal with the constant pushed before the zero test
transform_Div_literal_pushfirst(n, x, yv) ==
    LET y == n + 1
    IN  IF yv = FZero
        THEN TErr(<<push_const(FZero)>>, "division by zero constant")
        ELSE TOk(<<push_const(FInv(yv))>>, I_Mul(<<x, y>>))

\* Div { x, y, checked } with constant_value(y) = Some(yv): lines 97-103
transform_Div_literal(n, x, yv) ==
    IF yv = FZero
    THEN TErr(<<>>, "division by zero constant")
    ELSE LET y == n + 1
         IN  TOk(<<push_const(FInv(yv))>>, I_Mul(<<x, y>>))

\* Div, checked, divisor not known: lines 105-117
transform_Div_checked(n, x, y) ==
    LET one == n + 1
        inv == n + 2
        multy == n + 3
        sub1 == n + 4
    IN  TOk(<<push_const(FOne),
              Push(I_Hint("Div", <<one, y>>, 1)),
              push_mul(y, inv),
              push_sub(multy, one),
              Assert_(sub1)>>,
            I_Mul(<<x, inv>>))

\* transform_Div_unchecked with the product taken with x instead of y
transform_Div_unchecked_mulx(n, x, y) ==
    LET div_res == n + 1
        multy == n + 2
        subx == n + 3
    IN  TOk(<<Push(I_Hint("Div", <<x, y>>, 1)),
              push_mul(x, div_res),
              push_sub(multy, x),
              Assert_(subx)>>,
            copy(div_res))

\* Div, unchecked, divisor not known: lines 118-130
transform_Div_unchecked(n, x, y) ==
    LET div_res == n + 1
        multy == n + 2
        subx == n + 3
    IN  TOk(<<Push(I_Hint("Div", <<x, y>>, 1)),
              push_mul(y, div_res),
              push_sub(multy, x),
              Assert_(subx)>>,
            copy(div_res))

transform_Div(B, x, y, checked) ==
    IF constant_value(B, y) # {}
    THEN transform_Div_literal(Last(B), x, Some(constant_value(B, y)))
    ELSE IF checked
         THEN transform_Div_checked(Last(B), x, y)
         ELSE transform_Div_unchecked(Last(B), x, y)

\* BoolBinOp { x, y, op }: lines 133-159.  assert_bool takes three
\* variables each, x_plus_y is n + 7, x_times_y is n + 8
transform_BoolBinOp(n, x, y, op) ==
    LET x_plus_y == n + 7
        x_times_y == n + 8
        res == IF op = "And" THEN x_times_y ELSE n + 9
        opsteps == CASE op = "And" -> <<>>
                     [] op = "Or"  -> <<push_sub(x_plus_y, x_times_y)>>
                     [] OTHER      -> <<Push(I_LinComb(
                                            <<LinCombTerm(FOne, x_plus_y),
                                              LinCombTerm(FAdd(FOne, FOne), x_times_y)>>,
                                            FZero))>>
    IN  TOk(assert_bool(n, x) \o assert_bool(n + 3, y)
              \o <<push_add(x, y), push_mul(x, y)>>
              \o opsteps
              \o mark_bool(res, res),
            copy(res))

\* transform_IsZero_general with the operands of m's subtraction swapped
transform_IsZero_general_swapped(n, x) ==
    LET one == n + 1
        inv == n + 2
        prod == n + 3
        m == n + 4
        xm == n + 5
    IN  TOk(<<push_const(FOne),
              Push(I_Hint("Div", <<one, x>>, 1)),
              push_mul(x, inv),
              push_sub(prod, one),
              push_mul(x, m),
              Assert_(xm)>>
              \o mark_bool(xm, m),
            copy(m))

\* IsZero(x), x not known: lines 168-181
transform_IsZero_general(n, x) ==
    LET one == n + 1
        inv == n + 2
        prod == n + 3
        m == n + 4
        xm == n + 5
    IN  TOk(<<push_const(FOne),
              Push(I_Hint("Div", <<one, x>>, 1)),
              push_mul(x, inv),
              push_sub(one, prod),
              push_mul(x, m),
              Assert_(xm)>>
              \o mark_bool(xm, m),
            copy(m))

\* IsZero(x): lines 160-183
transform_IsZero(B, x) ==
    IF constant_value(B, x) # {}
    THEN TOk(<<>>, I_ConstantOrRandom(Coef_Constant(
                    IF Some(constant_value(B, x)) = FZero THEN FOne ELSE FZero)))
    ELSE transform_IsZero_general(Last(B), x)

\* the table of lines 215-233
BuiltinHintIds(op) ==
    CASE op = "Div" -> "Div"             [] op = "Pow" -> "Pow"
      [] op = "IntDiv" -> "IntDiv"       [] op = "Mod" -> "Mod"
      [] op = "ShiftL" -> "ShiftL"       [] op = "ShiftR" -> "ShiftR"
      [] op = "LesserEq" -> "LesserEq"   [] op = "GreaterEq" -> "GreaterEq"
      [] op = "Lesser" -> "Lesser"       [] op = "Greater" -> "Greater"
      [] op = "Eq" -> "Eq"               [] op = "NotEq" -> "NotEq"
      [] op = "BoolOr" -> "BoolOr"       [] op = "BoolAnd" -> "BoolAnd"
      [] op = "BitOr" -> "BitOr"         [] op = "BitAnd" -> "BitAnd"
      [] op = "BitXor" -> "BitXor"

\* UnconstrainedBinOp { x, y, op }: lines 208-240
transform_UnconstrainedBinOp(B, x, y, op) ==
    LET xc == constant_value(B, x)
        yc == constant_value(B, y)
    IN  IF xc # {} /\ yc # {}
        THEN LET r == UnconstrainedBinOpEval(op, Some(xc), Some(yc))
             IN  IF r.ok THEN TOk(<<>>, I_ConstantOrRandom(Coef_Constant(r.v)))
                 ELSE TErr(<<>>, "unconstrained op eval failure")
        ELSE TOk(<<>>, I_Hint(BuiltinHintIds(op), <<x, y>>, 1))

\* UnconstrainedSelect { cond, if_true, if_false }: lines 241-259
transform_UnconstrainedSelect(B, cond, if_true, if_false) ==
    IF constant_value(B, cond) # {}
    THEN IF Some(constant_value(B, cond)) = FZero
         THEN TOk(<<>>, copy(if_false))
         ELSE TOk(<<>>, copy(if_true))
    ELSE TOk(<<>>, I_Hint("Select", <<cond, if_true, if_false>>, 1))

\* transform_unchanged that rebuilds a LinComb without its constant
transform_unchanged_dropconst(in_insn) ==
    CASE in_insn.tag = "LinComb" -> I_LinComb(in_insn.terms, FZero)
      [] in_insn.tag = "Mul" -> I_Mul(in_insn.vars)
      [] in_insn.tag = "Hint" -> I_Hint(in_insn.hint_id, in_insn.inputs, in_insn.num_outputs)
      [] in_insn.tag = "ConstantOrRandom" -> I_ConstantOrRandom(in_insn.coef)
      [] OTHER -> I_SubCircuitCall(in_insn.sub_circuit_id, in_insn.inputs, in_insn.num_outputs)

\* LinComb, Mul, Hint, ConstantOrRandom, SubCircuitCall: lines 94-95, 187-207
transform_unchanged(in_insn) ==
    CASE in_insn.tag = "LinComb" -> I_LinComb(in_insn.terms, in_insn.constant)
      [] in_insn.tag = "Mul" -> I_Mul(in_insn.vars)
      [] in_insn.tag = "Hint" -> I_Hint(in_insn.hint_id, in_insn.inputs, in_insn.num_outputs)
      [] in_insn.tag = "ConstantOrRandom" -> I_ConstantOrRandom(in_insn.coef)
      [] OTHER -> I_SubCircuitCall(in_insn.sub_circuit_id, in_insn.inputs, in_insn.num_outputs)

\* Commit(_): lines 184-186
transform_Commit == TPanic(<<>>, "commit is unimplemented")

transform_in_to_out(B, in_insn) ==
    CASE in_insn.tag = "Div" -> transform_Div(B, in_insn.x, in_insn.y, in_insn.checked)
      [] in_insn.tag = "BoolBinOp" ->
            transform_BoolBinOp(Last(B), in_insn.x, in_insn.y, in_insn.op)
      [] in_insn.tag = "IsZero" -> transform_IsZero(B, in_insn.x)
      [] in_insn.tag = "Commit" -> transform_Commit
      [] in_insn.tag = "UnconstrainedBinOp" ->
            transform_UnconstrainedBinOp(B, in_insn.x, in_insn.y, in_insn.op)
      [] in_insn.tag = "UnconstrainedSelect" ->
            transform_UnconstrainedSelect(B, in_insn.cond, in_insn.if_true, in_insn.if_false)
      [] OTHER -> TOk(<<>>, transform_unchanged(in_insn))

\* transform_in_con_to_out (lines 263-284): res is the RawConstraint variable
COk(steps, v) ==
    [steps |-> steps, res |-> [tag |-> "RawConstraint", var |-> v], err |-> "", panic |-> FALSE]

transform_in_con_to_out(n, in_con) ==
    CASE in_con.typ = "Zero" -> COk(<<>>, in_con.var)
      [] in_con.typ = "Bool" -> COk(bool_cond(n, in_con.var), n + 3)
      [] OTHER ->
            LET one == n + 1
                inv == n + 2
                multy == n + 3
                sub1 == n + 4
            IN  COk(<<push_const(FOne),
                      Push(I_Hint("Div", <<one, in_con.var>>, 1)),
                      push_mul(in_con.var, inv),
                      push_sub(multy, one)>>,
                    sub1)

-----------------------------------------------------------------------------
(* Source-IR semantics (ir::source, outside this file): what evaluating a  *)
(* source instruction / constraint yields on the values at hand.           *)

SOk(out) == [ok |-> TRUE, out |-> out]
SFail == [ok |-> FALSE, out |-> <<>>]

IsBool(v) == v = FZero \/ v = FOne

SrcEval(insn, vals, orc) ==
    CASE insn.tag = "Div" ->
            LET x == Val(vals, insn.x)
                y == Val(vals, insn.y)
            IN  IF y = FZero
                THEN (IF insn.checked THEN SFail ELSE SOk(<<FZero>>))
                ELSE SOk(<<FDiv(x, y)>>)
      [] insn.tag = "BoolBinOp" ->
            LET x == Val(vals, insn.x)
                y == Val(vals, insn.y)
            IN  IF ~(IsBool(x) /\ IsBool(y)) THEN SFail
                ELSE CASE insn.op = "And" -> SOk(<<B2F(x = FOne /\ y = FOne)>>)
                       [] insn.op = "Or"  -> SOk(<<B2F(x = FOne \/ y = FOne)>>)
                       [] OTHER           -> SOk(<<B2F(x # y)>>)
      [] insn.tag = "IsZero" -> SOk(<<B2F(Val(vals, insn.x) = FZero)>>)
      [] insn.tag = "Commit" -> SFail
      [] insn.tag = "UnconstrainedBinOp" ->
            LET r == UnconstrainedBinOpEval(insn.op, Val(vals, insn.x), Val(vals, insn.y))
            IN  IF r.ok THEN SOk(<<r.v>>) ELSE SFail
      [] insn.tag = "UnconstrainedSelect" ->
            SOk(<<IF Val(vals, insn.cond) # FZero
                  THEN Val(vals, insn.if_true) ELSE Val(vals, insn.if_false)>>)
      [] insn.tag = "Hint" ->
            LET h == HintEval(insn.hint_id, Vals(vals, insn.inputs))
            IN  IF h.ok THEN SOk(SubSeq(h.out, 1, insn.num_outputs)) ELSE SFail
      [] OTHER -> SOk(OutEval(insn, vals, orc))

SrcConHolds(con, vals) ==
    CASE con.typ = "Zero" -> Val(vals, con.var) = FZero
      [] con.typ = "Bool" -> IsBool(Val(vals, con.var))
      [] OTHER -> Val(vals, con.var) # FZero

\* every raw constraint of the output circuit evaluates to zero (marks are
\* raw constraints v*(v-1) too)
OutConstraintsHold(B) ==
    /\ \A i \in DOMAIN B.cons : Val(B.vals, B.cons[i]) = FZero
    /\ \A i \in DOMAIN B.marks : Val(B.vals, B.marks[i]) = FZero

-----------------------------------------------------------------------------
(* SpecHint: the pass on a circuit that starts with three ConstantOrRandom *)
(* instructions (each a literal or a random value, all of F) followed by   *)
(* one source instruction, or one source constraint, over those variables. *)

EmptyBuilder ==
    [insns |-> <<>>, cons |-> <<>>, marks |-> <<>>, vals |-> <<>>, cval |-> <<>>,
     honest |-> TRUE, hinterr |-> FALSE]

PrefixInsn(k, v) ==
    I_ConstantOrRandom(IF k = "Constant" THEN Coef_Constant(v) ELSE Coef_Random)

\* the driver (process_root_circuit) on one instruction: transform, then push
process_insn(B, insn, orc) ==
    LET t == transform_in_to_out(B, insn)
    IN  push_insn(ApplySteps(B, t.steps, orc), t.res, orc)

RECURSIVE process_insns(_, _, _)
process_insns(B, insns, orcs) ==
    IF insns = <<>> THEN B
    ELSE process_insns(process_insn(B, Head(insns), Head(orcs)), Tail(insns), Tail(orcs))

PrefixInsns(ks, vs) == [i \in 1 .. 3 |-> PrefixInsn(ks[i], vs[i])]

PrefixBuilder(ks, vs) ==
    process_insns(EmptyBuilder, PrefixInsns(ks, vs), [i \in 1 .. 3 |-> <<vs[i]>>])

NoRes == [res |-> NoInsn, err |-> "", panic |-> FALSE, in |-> NoInsn, ret |-> "none"]

\* the source instructions tried, over x = 1, y = 2, c = 3
SrcInsns ==
    {I_LinComb(<<LinCombTerm(FOne, 1), LinCombTerm(FOne, 2)>>, FOne),
     I_LinComb(<<LinCombTerm(FOne, 1)>>, FZero),
     I_LinComb(<<LinCombTerm(FOne, 1), LinCombTerm(FNeg(FOne), 2), LinCombTerm(FOne, 1)>>, FZero),
     I_Mul(<<1, 2>>), I_Mul(<<2, 1, 3>>),
     I_IsZero(1), I_Commit(1),
     I_Hint("Div", <<1, 2>>, 1), I_Hint("Custom", <<1, 2>>, 2),
     I_ConstantOrRandom(Coef_Random),
     I_SubCircuitCall(1, <<1, 2>>, 1), I_SubCircuitCall(2, <<2, 1>>, 1),
     I_UnconstrainedSelect(3, 1, 2)}
    \cup {I_ConstantOrRandom(Coef_Constant(c)) : c \in F}
    \cup {I_Div(1, 2, ch) : ch \in BOOLEAN}
    \cup {I_BoolBinOp(1, 2, op) : op \in BoolBinOpTypes}
    \cup {I_UnconstrainedBinOp(1, 2, op) : op \in UnconstrainedBinOpTypes}

SrcCons == [var : 1 .. 3, typ : {"Zero", "Bool", "NonZero"}]

\* how many oracle values (hint outputs, random values) the step consumes
OracleCount(B, insn) ==
    CASE insn.tag = "Hint" -> insn.num_outputs
      [] insn.tag = "ConstantOrRandom" -> IF insn.coef.kind = "Random" THEN 1 ELSE 0
      [] insn.tag = "Div" -> IF constant_value(B, insn.y) = {} THEN 1 ELSE 0
      [] insn.tag = "IsZero" -> IF constant_value(B, insn.x) = {} THEN 1 ELSE 0
      [] insn.tag = "UnconstrainedBinOp" ->
            IF constant_value(B, insn.x) # {} /\ constant_value(B, insn.y) # {} THEN 0 ELSE 1
      [] insn.tag = "UnconstrainedSelect" -> IF constant_value(B, insn.cond) = {} THEN 1 ELSE 0
      [] OTHER -> 0

Oracles(n) == [1 .. n -> F]

MergeIdle ==
    /\ m_s = <<>> /\ m_add = <<>> /\ m_res = <<>> /\ m_order = <<>>
    /\ m_fill = [k |-> 0, slot |-> 0] /\ m_pc = "off" /\ m_log = <<>>

SolveIdle ==
    /\ ctx = 0 /\ circuits = <<>> /\ layer_req_to_layout = <<>> /\ layer_layout_pool = <<>>
    /\ stack = <<>> /\ ret = 0 /\ s_pc = "off" /\ s_log = <<>>

InitHint ==
    /\ \E ks \in [1 .. 3 -> {"Constant", "Random"}], vs \in [1 .. 3 -> F] :
          /\ bld = PrefixBuilder(ks, vs)
          /\ in_insns = PrefixInsns(ks, vs)
          /\ pre = PrefixBuilder(ks, vs)
    /\ hres = NoRes
    /\ hpc = "ready"
    /\ oracle = <<>>
    /\ MergeIdle
    /\ SolveIdle

\* the pass reaches the next instruction: process_insn calls
\* transform_in_to_out on it and, when that returns Ok, pushes the result
TransformInsn ==
    /\ hpc = "ready"
    /\ \E insn \in SrcInsns :
         \E orc \in Oracles(OracleCount(bld, insn)) :
            LET t == transform_in_to_out(bld, insn)
                B1 == ApplySteps(bld, t.steps, orc)
            IN  /\ bld' = IF t.err = "" THEN push_insn(B1, t.res, orc) ELSE B1
                /\ hres' = [res |-> t.res, err |-> t.err, panic |-> t.panic,
                            in |-> insn, ret |-> "none"]
                /\ hpc' = IF t.panic THEN "panic" ELSE IF t.err # "" THEN "err" ELSE "pushed"
                /\ in_insns' = Append(in_insns, insn)
                /\ pre' = bld
                /\ oracle' = orc
    /\ UNCHANGED <<mvars, svars>>

\* the pass reaches a constraint: transform_in_con_to_out, and the driver
\* records the raw constraint
TransformCon ==
    /\ hpc = "ready"
    /\ \E con \in SrcCons :
         \E orc \in Oracles(IF con.typ = "NonZero" THEN 1 ELSE 0) :
            LET t == transform_in_con_to_out(Last(bld), con)
            IN  /\ bld' = assert(ApplySteps(bld, t.steps, orc), t.res.var)
                /\ hres' = [res |-> t.res, err |-> t.err, panic |-> t.panic,
                            in |-> [tag |-> "Constraint", var |-> con.var, typ |-> con.typ],
                            ret |-> "none"]
                /\ hpc' = "con"
                /\ pre' = bld
                /\ oracle' = orc
    /\ UNCHANGED <<in_insns, mvars, svars>>

\* process returns: Ok(root) after the last instruction or constraint, the
\* Err of a failed transform otherwise (the builder is dropped)
ProcessReturn ==
    /\ hpc \in {"pushed", "con", "err"}
    /\ hres' = [hres EXCEPT !.ret = IF hpc = "err" THEN "Err" ELSE "Ok"]
    /\ bld' = IF hpc = "err" THEN EmptyBuilder ELSE bld
    /\ hpc' = "returned"
    /\ UNCHANGED <<in_insns, pre, oracle, mvars, svars>>

NextHint == TransformInsn \/ TransformCon \/ ProcessReturn

SpecHint == InitHint /\ [][NextHint]_vars

-----------------------------------------------------------------------------
(* merge_layouts (layer_layout.rs:433-511).  Placement arrays hold         *)
(* 0-based indices or EMPTY; a Rust Vec is a sequence whose element i is   *)
(* at position i + 1.                                                      *)

\* crate::circuit::input_mapping::EMPTY: an id no variable has
EMPTY == -1

At(v, i) == v[i + 1]

RECURSIVE NextPow2From(_, _)
NextPow2From(k, x) == IF k < x THEN NextPow2From(2 * k, x) ELSE k

\* utils::misc::next_power_of_two: the least power of two >= x (1 for 0)
next_power_of_two(x) == NextPow2From(1, x)

\* (m & m - 1) == 0 for m >= 1
IsPowerOfTwo(m) == m >= 1 /\ next_power_of_two(m) = m

\* the outcome of the size check loop (lines 440-446).  For m = 0 the
\* subtraction m - 1 overflows: a build with overflow checks aborts there,
\* a build without them wraps and the test passes.
merge_check(s, overflow_checks) ==
    LET bad == {i \in 1 .. Len(s) : Len(s[i]) >= 1 /\ ~IsPowerOfTwo(Len(s[i]))}
        zero == {i \in 1 .. Len(s) : Len(s[i]) = 0}
        first == CHOOSE i \in bad \cup zero : \A j \in bad \cup zero : i <= j
    IN  IF overflow_checks /\ zero # {} /\ first \in zero THEN "panic_overflow"
        ELSE IF bad # {} THEN "panic_pow2"
        ELSE "ok"

\* the mutation of the comparator that keeps the index order
OrderBefore_index_only(s, i, j) == i <= j

\* sort_by of lines 456-461: longer groups first, then lower index
OrderBefore(s, i, j) ==
    IF Len(s[i]) # Len(s[j]) THEN Len(s[i]) > Len(s[j]) ELSE i <= j

RECURSIVE SortIndices(_, _)
SortIndices(s, I) ==
    IF I = {} THEN <<>>
    ELSE LET i == CHOOSE i \in I : \A j \in I : OrderBefore(s, i, j)
         IN  <<i>> \o SortIndices(s, I \ {i})

\* lines 450-461: indices (1-based here) of the non-empty groups, sorted
merge_order(s) == SortIndices(s, {i \in 1 .. Len(s) : Len(s[i]) > 0})

\* lines 471-477: the stride at offset i takes pg
StrideOk(res, pg, i) ==
    \A j \in 0 .. Len(pg) - 1 : At(res, i + j) = EMPTY \/ At(pg, j) = EMPTY

\* lines 479-483
Overlay(res, pg, i) ==
    [k \in 1 .. Len(res) |->
        IF k - 1 >= i /\ k - 1 < i + Len(pg) /\ At(pg, k - 1 - i) # EMPTY
        THEN At(pg, k - 1 - i) ELSE res[k]]

\* lines 468-490 for one group: the first stride that takes pg, else append
merge_place(res, pg) ==
    LET fits == {i \in 0 .. Len(res) - 1 : i % Len(pg) = 0 /\ StrideOk(res, pg, i)}
        first == CHOOSE i \in fits : \A j \in fits : i <= j
    IN  IF fits # {}
        THEN [res |-> Overlay(res, pg, first), off |-> first, appended |-> FALSE]
        ELSE [res |-> res \o pg, off |-> Len(res), appended |-> TRUE]

RECURSIVE SkipFull(_, _)
SkipFull(res, slot) ==
    IF slot < Len(res) /\ At(res, slot) # EMPTY THEN SkipFull(res, slot + 1) ELSE slot

\* the fill that does not look for an EMPTY slot
merge_fill_no_skip(res, slot, x) ==
    [slot |-> slot,
     res |-> IF slot >= Len(res) THEN Append(res, x) ELSE [res EXCEPT ![slot + 1] = x]]

\* lines 494-503 for one element x of additional
merge_fill(res, slot, x) ==
    LET sl == SkipFull(res, slot)
    IN  [slot |-> sl,
         res |-> IF sl >= Len(res) THEN Append(res, x) ELSE [res EXCEPT ![sl + 1] = x]]

\* the mutation of the padding that pads nothing
merge_pad_none(res) == res

\* lines 505-508
merge_pad(res) ==
    res \o [k \in 1 .. next_power_of_two(Len(res)) - Len(res) |-> EMPTY]

RECURSIVE PlaceAll(_, _, _)
PlaceAll(s, order, res) ==
    IF order = <<>> THEN [status |-> "ok", res |-> res]
    ELSE IF Len(res) % Len(s[Head(order)]) # 0 THEN [status |-> "panic_align", res |-> res]
    ELSE PlaceAll(s, Tail(order), merge_place(res, s[Head(order)]).res)

RECURSIVE FillAll(_, _, _)
FillAll(res, slot, additional) ==
    IF additional = <<>> THEN res
    ELSE FillAll(merge_fill(res, slot, Head(additional)).res,
                 merge_fill(res, slot, Head(additional)).slot, Tail(additional))

\* the whole function, as the solver calls it: [status, res]
merge_layouts(s, additional, overflow_checks) ==
    IF merge_check(s, overflow_checks) # "ok"
    THEN [status |-> merge_check(s, overflow_checks), res |-> <<>>]
    ELSE IF PlaceAll(s, merge_order(s), <<>>).status # "ok"
    THEN [status |-> "panic_align", res |-> <<>>]
    ELSE [status |-> "ok",
          res |-> merge_pad(FillAll(PlaceAll(s, merge_order(s), <<>>).res, 0, additional))]

(* SpecMerge: one call of merge_layouts on bounded arguments, one loop     *)
(* iteration per step.                                                     *)

MaxGroups == 2
MaxAdditional == 2
GroupLens == {0, 1, 2, 3, 4}

\* group g of length len, holding distinct ids at the slots of mask
Group(g, len, mask) == [j \in 1 .. len |-> IF j \in mask THEN 10 * g + j - 1 ELSE EMPTY]

GroupsAt(g) == UNION {{Group(g, len, mask) : mask \in SUBSET (1 .. len)} : len \in GroupLens}

RECURSIVE GroupLists(_)
GroupLists(n) ==
    IF n = 0 THEN {<<>>}
    ELSE {Append(s, pg) : s \in GroupLists(n - 1), pg \in GroupsAt(n)}

Additionals == {[k \in 1 .. n |-> 100 + k] : n \in 0 .. MaxAdditional}

HintIdle ==
    /\ bld = EmptyBuilder /\ in_insns = <<>> /\ hres = NoRes /\ hpc = "off"
    /\ pre = EmptyBuilder /\ oracle = <<>>

InitMerge ==
    /\ m_s \in UNION {GroupLists(n) : n \in 0 .. MaxGroups}
    /\ m_add \in Additionals
    /\ m_res = <<>>
    /\ m_order = <<>>
    /\ m_fill = [k |-> 0, slot |-> 0]
    /\ m_pc = "start"
    /\ m_log = <<>>
    /\ HintIdle
    /\ SolveIdle

\* lines 439-461: the size check, then the sorted order
MergeStart ==
    /\ m_pc = "start"
    /\ \E overflow_checks \in BOOLEAN :
         /\ m_pc' = IF merge_check(m_s, overflow_checks) = "ok" THEN "groups"
                    ELSE merge_check(m_s, overflow_checks)
         /\ m_order' = IF merge_check(m_s, overflow_checks) = "ok" THEN merge_order(m_s)
                       ELSE <<>>
    /\ UNCHANGED <<m_s, m_add, m_res, m_fill, m_log, hvars, svars>>

\* lines 463-491: one iteration of the loop over order
MergePlace ==
    /\ m_pc = "groups"
    /\ m_order # <<>>
    /\ LET pg == m_s[Head(m_order)]
       IN  IF Len(m_res) % Len(pg) # 0
           THEN /\ m_pc' = "panic_align"
                /\ UNCHANGED <<m_res, m_order, m_log>>
           ELSE /\ m_res' = merge_place(m_res, pg).res
                /\ m_log' = Append(m_log, [g |-> Head(m_order),
                                           off |-> merge_place(m_res, pg).off,
                                           appended |-> merge_place(m_res, pg).appended])
                /\ m_order' = Tail(m_order)
                /\ m_pc' = m_pc
    /\ UNCHANGED <<m_s, m_add, m_fill, hvars, svars>>

\* lines 493-503: one iteration of the loop over additional
MergeFill ==
    /\ m_pc = "groups"
    /\ m_order = <<>>
    /\ m_fill.k < Len(m_add)
    /\ m_res' = merge_fill(m_res, m_fill.slot, m_add[m_fill.k + 1]).res
    /\ m_fill' = [k |-> m_fill.k + 1,
                  slot |-> merge_fill(m_res, m_fill.slot, m_add[m_fill.k + 1]).slot]
    /\ UNCHANGED <<m_s, m_add, m_order, m_pc, m_log, hvars, svars>>

\* lines 505-510: pad and return
MergePad ==
    /\ m_pc = "groups"
    /\ m_order = <<>>
    /\ m_fill.k = Len(m_add)
    /\ m_res' = merge_pad(m_res)
    /\ m_pc' = "done"
    /\ UNCHANGED <<m_s, m_add, m_order, m_fill, m_log, hvars, svars>>

NextMerge == MergeStart \/ MergePlace \/ MergeFill \/ MergePad

SpecMerge == InitMerge /\ [][NextMerge]_vars

-----------------------------------------------------------------------------
(* The layer layout solver (layer_layout.rs:91-431): data                  *)

\* a HashMap is a function with a finite domain; insert overwrites
EmptyMap == <<>>
MapInsert(m, k, v) == (k :> v) @@ m
MapInsertAll(m, keys, v) == [x \in Range(keys) |-> v] @@ m

\* utils::pool::Pool<usize>: vec() keeps the order of first insertion,
\* map() gives the index of each element
RECURSIVE PoolAddAll(_, _)
PoolAddAll(vec, xs) ==
    IF xs = <<>> THEN vec
    ELSE PoolAddAll(IF Head(xs) \in Range(vec) THEN vec ELSE Append(vec, Head(xs)), Tail(xs))

PoolMap(vec) == [x \in Range(vec) |-> (CHOOSE i \in 1 .. Len(vec) : vec[i] = x) - 1]

RECURSIVE Concat(_)
Concat(seqs) == IF seqs = <<>> THEN <<>> ELSE Head(seqs) \o Concat(Tail(seqs))

\* the ids a, a+1, ..., b in order
IdsFrom(a, b) == [k \in 1 .. (b - a + 1) |-> a + k - 1]

Perms(S) == {p \in [1 .. Cardinality(S) -> S] : Range(p) = S}

\* LayerLayoutContext::default()
EmptyLc ==
    [vars |-> <<>>, prev_circuit_insn_ids |-> EmptyMap, prev_circuit_num_out |-> EmptyMap,
     prev_circuit_subc_pos |-> EmptyMap, placement |-> EmptyMap, parent |-> <<>>,
     req |-> <<>>, middle_sub_circuits |-> <<>>]

PlacementRequest(insn_id, input_ids) == [insn_id |-> insn_id, input_ids |-> input_ids]

LayerReq(circuit_id, layer) == [circuit_id |-> circuit_id, layer |-> layer]

SubLayout(id, offset, insn_id) == [id |-> id, offset |-> offset, insn_id |-> insn_id]

Dense(placement) == [kind |-> "Dense", placement |-> placement]

Sparse(placement, sub_layout) ==
    [kind |-> "Sparse", placement |-> placement, sub_layout |-> sub_layout]

LayerLayout(circuit_id, layer, size, inner) ==
    [circuit_id |-> circuit_id, layer |-> layer, size |-> size, inner |-> inner]

\* the comparison that would look at size and inner only
LayerLayout_eq_size_inner(a, b) == a.size = b.size /\ a.inner = b.inner

\* #[derive(Hash, PartialEq, Eq)] on LayerLayout: all four fields
LayerLayout_eq(a, b) ==
    a.circuit_id = b.circuit_id /\ a.layer = b.layer /\ a.size = b.size /\ a.inner = b.inner

\* Pool<LayerLayout>::add: the handle of an equal entry, else a new one
pool_add(pool, x) ==
    LET found == {i \in 1 .. Len(pool) : LayerLayout_eq(pool[i], x)}
    IN  IF found # {}
        THEN [pool |-> pool, id |-> (CHOOSE i \in found : \A j \in found : i <= j) - 1]
        ELSE [pool |-> Append(pool, x), id |-> Len(pool)]

\* the lookup that never finds the request
memo_get_miss(memo, req) == <<>>

\* line 227: layer_req_to_layout.get(req), <<id>> for Some(id), <<>> for None
memo_get(memo, req) == IF req \in DOMAIN memo THEN <<memo[req]>> ELSE <<>>

\* one sub-circuit call of a circuit: element i of sub_circuit_insn_ids,
\* sub_circuit_insn_refs, sub_circuit_hint_inputs and sub_circuit_start_layer
SubCircuitInsn(insn_id, sub_circuit_id, inputs, outputs, hint_inputs, start_layer) ==
    [insn_id |-> insn_id, sub_circuit_id |-> sub_circuit_id, inputs |-> inputs,
     outputs |-> outputs, hint_inputs |-> hint_inputs, start_layer |-> start_layer]

\* IrContext as the layering pass hands it over.  layers[v] = <<min_layer[v],
\* max_layer[v]>> for the variables 1 .. num_var - 1; combined_constraints[l + 1]
\* is <<>> (None) or <<id>>.
IrContext(num_inputs, num_hint_inputs, num_insns, outputs, layers, cc, subs) ==
    [num_inputs |-> num_inputs, num_hint_inputs |-> num_hint_inputs,
     num_insns |-> num_insns, outputs |-> outputs, num_var |-> Len(layers) + 1,
     min_layer |-> [v \in DOMAIN layers |-> layers[v][1]],
     max_layer |-> [v \in DOMAIN layers |-> layers[v][2]],
     output_layer |-> Len(cc) - 1, combined_constraints |-> cc, subs |-> subs,
     lcs |-> <<>>, lc_hint |-> EmptyLc]

sub_circuit_loc_map(ic) ==
    [id \in {ic.subs[i].insn_id : i \in DOMAIN ic.subs} |->
        (CHOOSE i \in DOMAIN ic.subs : ic.subs[i].insn_id = id) - 1]

\* output_order[x] = y: x is the y-th output
output_order(ic) == PoolMap(PoolAddAll(<<>>, ic.outputs))

\* the circuit's own hint inputs, then those it relays to its sub-circuits
hint_inputs(ic) ==
    PoolAddAll(<<>>, IdsFrom(ic.num_inputs + 1, ic.num_inputs + ic.num_hint_inputs)
                     \o Concat([i \in DOMAIN ic.subs |-> ic.subs[i].hint_inputs]))

(* Context 1: the root calls A twice on layer 0 and B on layer 1; B takes  *)
(* one hint input, relayed on layer 1, and passes through layer 2.         *)
Ctx1_A ==
    IrContext(2, 0, 1, <<3>>, <<<<0, 0>>, <<0, 0>>, <<1, 1>>>>, <<<<>>, <<>>>>, <<>>)

Ctx1_B ==
    IrContext(1, 1, 2, <<4, 3>>, <<<<0, 0>>, <<0, 0>>, <<1, 2>>, <<2, 2>>>>,
              <<<<>>, <<>>, <<5>>>>, <<>>)

Ctx1_Root ==
    IrContext(2, 0, 4, <<5, 7>>,
              <<<<0, 0>>, <<0, 0>>, <<1, 1>>, <<0, 0>>, <<3, 3>>, <<3, 3>>, <<1, 3>>, <<1, 1>>>>,
              <<<<>>, <<>>, <<>>, <<>>>>,
              <<SubCircuitInsn(0, 1, <<1, 2>>, <<3>>, <<>>, 0),
                SubCircuitInsn(1, 2, <<3>>, <<5, 6>>, <<4>>, 1),
                SubCircuitInsn(3, 1, <<1, 2>>, <<8>>, <<>>, 0)>>)

Context1 == (0 :> Ctx1_Root) @@ (1 :> Ctx1_A) @@ (2 :> Ctx1_B)

(* Context 2: sub-calls of output widths 4 and 2 and one loose variable    *)
(* meet on layer 1, where a third call takes the two outputs as its inputs *)
Ctx2_W4 ==
    IrContext(1, 0, 4, <<2, 3, 4, 5>>,
              <<<<0, 0>>, <<1, 1>>, <<1, 1>>, <<1, 1>>, <<1, 1>>>>, <<<<>>, <<>>>>, <<>>)

Ctx2_W2 ==
    IrContext(1, 0, 2, <<2, 3>>, <<<<0, 0>>, <<1, 1>>, <<1, 1>>>>, <<<<>>, <<>>>>, <<>>)

Ctx2_Root ==
    IrContext(2, 0, 4, <<10, 9>>,
              <<<<0, 0>>, <<0, 0>>, <<1, 1>>, <<1, 1>>, <<1, 1>>, <<1, 1>>, <<1, 1>>,
                <<1, 1>>, <<1, 2>>, <<2, 2>>>>,
              <<<<>>, <<>>, <<>>>>,
              <<SubCircuitInsn(0, 1, <<1>>, <<3, 4, 5, 6>>, <<>>, 0),
                SubCircuitInsn(1, 2, <<2>>, <<7, 8>>, <<>>, 0),
                SubCircuitInsn(3, 3, <<7, 8>>, <<10>>, <<>>, 1)>>)

Context2 == (0 :> Ctx2_Root) @@ (1 :> Ctx2_W4) @@ (2 :> Ctx2_W2) @@ (3 :> Ctx1_A)

(* Context 3: a chain root -> M -> H; H takes two hint inputs, M relays    *)
(* them and is called on layer 2 of the root, so it passes through the     *)
(* root's layers 1 (hint relay) and 3.                                     *)
Ctx3_H ==
    IrContext(1, 2, 1, <<4>>, <<<<0, 0>>, <<0, 0>>, <<0, 0>>, <<1, 1>>>>, <<<<>>, <<>>>>, <<>>)

Ctx3_M ==
    IrContext(1, 0, 2, <<5>>, <<<<0, 0>>, <<1, 1>>, <<0, 0>>, <<0, 0>>, <<2, 2>>>>,
              <<<<>>, <<>>, <<>>>>,
              <<SubCircuitInsn(1, 2, <<2>>, <<5>>, <<3, 4>>, 1)>>)

Ctx3_Root ==
    IrContext(1, 0, 3, <<6>>,
              <<<<0, 0>>, <<1, 1>>, <<2, 2>>, <<0, 0>>, <<0, 0>>, <<4, 4>>>>,
              <<<<>>, <<>>, <<>>, <<>>, <<>>>>,
              <<SubCircuitInsn(2, 1, <<3>>, <<6>>, <<4, 5>>, 2)>>)

Context3 == (0 :> Ctx3_Root) @@ (1 :> Ctx3_M) @@ (2 :> Ctx3_H)

(* Context 4: the callee K hands its hint input out as its output, so its   *)
(* output layer is 0; the root calls it on layer 0, where both the call's  *)
(* output and its relayed hint input live.                                 *)
Ctx4_K ==
    IrContext(1, 1, 0, <<2>>, <<<<0, 0>>, <<0, 0>>>>, <<<<>>>>, <<>>)

Ctx4_Root ==
    IrContext(1, 0, 2, <<4>>, <<<<0, 0>>, <<0, 0>>, <<0, 0>>, <<1, 1>>>>,
              <<<<>>, <<>>>>,
              <<SubCircuitInsn(0, 1, <<1>>, <<3>>, <<2>>, 0)>>)

Context4 == (0 :> Ctx4_Root) @@ (1 :> Ctx4_K)

(* Context 5: the root passes the first of the two outputs of P twice to   *)
(* A (layer 1), the single output of that call twice to A again (layer 2), *)
(* and calls Z, which takes no input (layer 0).                            *)
Ctx5_P ==
    IrContext(1, 0, 2, <<2, 3>>, <<<<0, 0>>, <<1, 1>>, <<1, 1>>>>, <<<<>>, <<>>>>, <<>>)

Ctx5_Z ==
    IrContext(0, 0, 2, <<2>>, <<<<0, 0>>, <<1, 1>>>>, <<<<>>, <<>>>>, <<>>)

Ctx5_Root ==
    IrContext(1, 0, 4, <<5, 6, 3>>,
              <<<<0, 0>>, <<1, 1>>, <<1, 3>>, <<2, 2>>, <<3, 3>>, <<1, 3>>>>,
              <<<<>>, <<>>, <<>>, <<>>>>,
              <<SubCircuitInsn(0, 1, <<1>>, <<2, 3>>, <<>>, 0),
                SubCircuitInsn(1, 2, <<2, 2>>, <<4>>, <<>>, 1),
                SubCircuitInsn(2, 2, <<4, 4>>, <<5>>, <<>>, 2),
                SubCircuitInsn(3, 3, <<>>, <<6>>, <<>>, 0)>>)

Context5 == (0 :> Ctx5_Root) @@ (1 :> Ctx5_P) @@ (2 :> Ctx1_A) @@ (3 :> Ctx5_Z)

(* Context 6: the calls of T and U start on layer 0 of the root and end on  *)
(* layer 3, so both pass through layers 1 and 2; on layer 1 T is one slot  *)
(* wide, U two, and the root holds one variable of its own; on layer 2 the *)
(* root holds none.  V calls the root circuit as its own sub-circuit, from  *)
(* layer 0 to its output layer 3.                                          *)
Ctx6_T ==
    IrContext(1, 0, 2, <<3>>, <<<<0, 0>>, <<1, 2>>, <<3, 3>>>>,
              <<<<>>, <<>>, <<>>, <<>>>>, <<>>)

Ctx6_U ==
    IrContext(1, 0, 3, <<4>>, <<<<0, 0>>, <<1, 2>>, <<1, 1>>, <<3, 3>>>>,
              <<<<>>, <<>>, <<>>, <<>>>>, <<>>)

Ctx6_Root ==
    IrContext(2, 0, 3, <<3, 4>>,
              <<<<0, 0>>, <<0, 0>>, <<3, 3>>, <<3, 3>>, <<1, 1>>>>,
              <<<<>>, <<>>, <<>>, <<>>>>,
              <<SubCircuitInsn(0, 1, <<1>>, <<3>>, <<>>, 0),
                SubCircuitInsn(1, 2, <<2>>, <<4>>, <<>>, 0)>>)

Ctx6_V ==
    IrContext(2, 0, 1, <<3, 4>>,
              <<<<0, 0>>, <<0, 0>>, <<3, 3>>, <<3, 3>>>>,
              <<<<>>, <<>>, <<>>, <<>>>>,
              <<SubCircuitInsn(0, 0, <<1, 2>>, <<3, 4>>, <<>>, 0)>>)

Context6 == (0 :> Ctx6_Root) @@ (1 :> Ctx6_T) @@ (2 :> Ctx6_U) @@ (3 :> Ctx6_V)

Contexts == <<Context1, Context2, Context3, Context4, Context5, Context6>>

-----------------------------------------------------------------------------
(* prepare_layer_layout_context (layer_layout.rs:92-224)                   *)

\* lines 96-118: the vars pool of layer l, in the order of the insertions
layer_vars(ic, l) ==
    PoolAddAll(<<>>,
        ic.combined_constraints[l + 1]
        \o (IF l = ic.output_layer THEN ic.outputs ELSE <<>>)
        \o SelectSeq(IdsFrom(1, ic.num_var - 1),
                     LAMBDA v : ic.min_layer[v] <= l /\ l <= ic.max_layer[v])
        \o Concat([i \in DOMAIN ic.subs |->
                     IF l = 0 \/ l = ic.subs[i].start_layer
                     THEN ic.subs[i].hint_inputs ELSE <<>>]))

\* lines 121-130
lc_hint_vars(ic) ==
    PoolAddAll(<<>>, IdsFrom(ic.num_inputs + 1, ic.num_inputs + ic.num_hint_inputs)
                     \o Concat([i \in DOMAIN ic.subs |-> ic.subs[i].hint_inputs]))

\* the loop body that counts the output layer of a sub-call among its
\* middle layers
sub_circuit_effect_through_output(cs, ic, l, i, lc) ==
    LET insn == At(ic.subs, i)
        input_layer == insn.start_layer
        output_layer == cs[insn.sub_circuit_id].output_layer + insn.start_layer
        relay == insn.hint_inputs # <<>>
        relay_id == insn.insn_id + ic.num_insns
    IN  [lc EXCEPT
          !.req = IF input_layer = l
                  THEN Append(@, PlacementRequest(insn.insn_id, insn.inputs)) ELSE @,
          !.prev_circuit_insn_ids =
              (IF relay /\ input_layer = l
               THEN MapInsertAll(EmptyMap, insn.hint_inputs, relay_id) ELSE EmptyMap)
              @@ (IF output_layer = l
                  THEN MapInsertAll(@, insn.outputs, insn.insn_id) ELSE @),
          !.prev_circuit_num_out =
              (IF relay /\ input_layer = l
               THEN relay_id :> Len(insn.hint_inputs) ELSE EmptyMap)
              @@ (IF output_layer = l THEN MapInsert(@, insn.insn_id, Len(insn.outputs)) ELSE @),
          !.prev_circuit_subc_pos =
              (IF relay /\ input_layer = l THEN relay_id :> i ELSE EmptyMap)
              @@ (IF output_layer = l THEN MapInsert(@, insn.insn_id, i) ELSE @),
          !.middle_sub_circuits =
              IF (relay /\ 1 <= l /\ l < input_layer) \/ (input_layer < l /\ l <= output_layer)
              THEN Append(@, i) ELSE @]

\* lines 134-176 for sub-circuit call number i (0-based) and layer l: what
\* the iteration adds to lc, the context of layer l
sub_circuit_effect(cs, ic, l, i, lc) ==
    LET insn == At(ic.subs, i)
        input_layer == insn.start_layer
        output_layer == cs[insn.sub_circuit_id].output_layer + insn.start_layer
        relay == insn.hint_inputs # <<>>
        relay_id == insn.insn_id + ic.num_insns
    IN  [lc EXCEPT
          !.req = IF input_layer = l
                  THEN Append(@, PlacementRequest(insn.insn_id, insn.inputs)) ELSE @,
          !.prev_circuit_insn_ids =
              (IF relay /\ input_layer = l
               THEN MapInsertAll(EmptyMap, insn.hint_inputs, relay_id) ELSE EmptyMap)
              @@ (IF output_layer = l
                  THEN MapInsertAll(@, insn.outputs, insn.insn_id) ELSE @),
          !.prev_circuit_num_out =
              (IF relay /\ input_layer = l
               THEN relay_id :> Len(insn.hint_inputs) ELSE EmptyMap)
              @@ (IF output_layer = l THEN MapInsert(@, insn.insn_id, Len(insn.outputs)) ELSE @),
          !.prev_circuit_subc_pos =
              (IF relay /\ input_layer = l THEN relay_id :> i ELSE EmptyMap)
              @@ (IF output_layer = l THEN MapInsert(@, insn.insn_id, i) ELSE @),
          !.middle_sub_circuits =
              IF (relay /\ 1 <= l /\ l < input_layer) \/ (input_layer < l /\ l < output_layer)
              THEN Append(@, i) ELSE @]

RECURSIVE sub_circuit_effects(_, _, _, _)
sub_circuit_effects(cs, ic, l, n) ==
    IF n = 0 THEN EmptyLc
    ELSE sub_circuit_effect(cs, ic, l, n - 1, sub_circuit_effects(cs, ic, l, n - 1))

\* Ord of Vec<usize>: a <= b
RECURSIVE VecLeq(_, _)
VecLeq(a, b) ==
    IF a = <<>> THEN TRUE
    ELSE IF b = <<>> THEN FALSE
    ELSE IF Head(a) # Head(b) THEN Head(a) < Head(b)
    ELSE VecLeq(Tail(a), Tail(b))

\* #[derive(PartialOrd, Ord)] on PlacementRequest: insn_id, then input_ids
ReqLeq(a, b) ==
    IF a.insn_id # b.insn_id THEN a.insn_id < b.insn_id ELSE VecLeq(a.input_ids, b.input_ids)

\* line 184: lc.req.sort()
RECURSIVE SortReqs(_, _)
SortReqs(reqs, I) ==
    IF I = {} THEN <<>>
    ELSE LET i == CHOOSE i \in I : \A j \in I : ReqLeq(reqs[i], reqs[j])
         IN  <<reqs[i]>> \o SortReqs(reqs, I \ {i})

\* lines 187-208: the test of one request
group_flag(lc, req) ==
    LET pl_cnt == {lc.placement[req.input_ids[k]] : k \in DOMAIN req.input_ids}
        pc_cnt == {lc.prev_circuit_insn_ids[x] :
                      x \in Range(req.input_ids) \cap DOMAIN lc.prev_circuit_insn_ids}
    IN  /\ Cardinality(pl_cnt) = 1
        /\ \A pc \in pc_cnt :
              Cardinality({k \in DOMAIN req.input_ids :
                              /\ req.input_ids[k] \in DOMAIN lc.prev_circuit_insn_ids
                              /\ lc.prev_circuit_insn_ids[req.input_ids[k]] = pc})
                 = lc.prev_circuit_num_out[pc]

\* lines 186-220 for one request
place_request(lc, req) ==
    IF group_flag(lc, req)
    THEN [lc EXCEPT
            !.placement = [x \in DOMAIN @ |->
                             IF x \in Range(req.input_ids) THEN Len(lc.parent) ELSE @[x]],
            !.parent = Append(@, lc.placement[req.input_ids[1]])]
    ELSE lc

RECURSIVE place_requests(_, _)
place_requests(lc, reqs) ==
    IF reqs = <<>> THEN lc ELSE place_requests(place_request(lc, Head(reqs)), Tail(reqs))

\* lines 96-222 for layer l
layer_context(cs, ic, l) ==
    place_requests(
        [sub_circuit_effects(cs, ic, l, Len(ic.subs)) EXCEPT
            !.vars = layer_vars(ic, l),
            !.placement = [x \in Range(layer_vars(ic, l)) |-> 0],
            !.parent = <<0>>,
            !.req = SortReqs(@, DOMAIN @)],
        SortReqs(sub_circuit_effects(cs, ic, l, Len(ic.subs)).req,
                 DOMAIN sub_circuit_effects(cs, ic, l, Len(ic.subs)).req))

prepare_layer_layout_context(cs, circuit_id) ==
    [cs[circuit_id] EXCEPT
        !.lcs = [l1 \in 1 .. cs[circuit_id].output_layer + 1 |->
                    layer_context(cs, cs[circuit_id], l1 - 1)],
        !.lc_hint = [EmptyLc EXCEPT !.vars = lc_hint_vars(cs[circuit_id])]]

-----------------------------------------------------------------------------
(* solve_layer_layout (layer_layout.rs:226-430)                            *)

\* lines 513-519; an index past the end of s aborts
OutOfRange == -2

subs_array(l, s) ==
    [i \in DOMAIN l |->
        IF l[i] = EMPTY THEN EMPTY
        ELSE IF l[i] >= 0 /\ l[i] < Len(s) THEN At(s, l[i]) ELSE OutOfRange]

\* lines 521-532
subs_map(l, m) ==
    [i \in DOMAIN l |->
        IF l[i] = EMPTY THEN EMPTY
        ELSE IF l[i] \in DOMAIN m THEN m[l[i]] ELSE EMPTY]

\* lines 240-253
solve_layer_layout_hint_relay(cs, req) ==
    LET s == IdsFrom(0, Len(cs[req.circuit_id].lc_hint.vars) - 1)
        placement == merge_layouts(<<>>, s, TRUE).res
    IN  LayerLayout(req.circuit_id, -1, Len(placement), Dense(placement))

\* the return that leaves the circuit out of the map
circuits_insert_dropped(cs, circuit_id, ic) == cs

\* lines 355 and 420: self.circuits.insert(req.circuit_id, ic)
circuits_insert(cs, circuit_id, ic) == MapInsert(cs, circuit_id, ic)

\* one active call of solve_layer_layout and, for layer >= 0, the locals of
\* solve_layer_layout_normal
Frame(req) ==
    [req |-> req, pc |-> "entry", ic |-> <<>>, todo |-> <<>>, layouts |-> EmptyMap,
     layouts_subs_arr |-> EmptyMap, root |-> <<>>, middle_layouts |-> <<>>]

Top == stack[Len(stack)]
SetTop(f) == [stack EXCEPT ![Len(stack)] = f]
Lc(f) == At(f.ic.lcs, f.req.layer)

\* lines 263-274 for the key x_ of prev_circuit_num_out: the layer asked of
\* the callee, the key x of layouts, and the call
prev_is_relay(f, x_) == x_ >= f.ic.num_insns
prev_x(f, x_) == IF prev_is_relay(f, x_) THEN x_ - f.ic.num_insns ELSE x_
prev_insn(f, x_) == At(f.ic.subs, Lc(f).prev_circuit_subc_pos[x_])
prev_sub_layer(cs, f, x_) ==
    IF prev_is_relay(f, x_) THEN -1 ELSE cs[prev_insn(f, x_).sub_circuit_id].output_layer

\* lines 280-313: the callee's placement in the indices of this layer
prev_layout(cs, f, x_, placement) ==
    LET insn == prev_insn(f, x_)
        callee == cs[insn.sub_circuit_id]
    IN  IF ~prev_is_relay(f, x_)
        THEN subs_map(
                subs_array(
                    subs_map(subs_array(placement, At(callee.lcs, callee.output_layer).vars),
                             output_order(callee)),
                    insn.outputs),
                PoolMap(Lc(f).vars))
        ELSE subs_map(
                subs_array(
                    subs_map(subs_array(placement, callee.lc_hint.vars),
                             PoolMap(hint_inputs(callee))),
                    At(f.ic.subs, sub_circuit_loc_map(f.ic)[prev_x(f, x_)]).hint_inputs),
                PoolMap(Lc(f).vars))

\* lines 294, 308-311
prev_subs_arr(f, x_) ==
    IF ~prev_is_relay(f, x_) THEN prev_insn(f, x_).outputs
    ELSE At(f.ic.subs, sub_circuit_loc_map(f.ic)[prev_x(f, x_)]).hint_inputs

\* lines 318-323
children_variables(lc, g) ==
    SelectSeq(IdsFrom(0, Len(lc.vars) - 1),
              LAMBDA i : /\ At(lc.vars, i) \notin DOMAIN lc.prev_circuit_insn_ids
                         /\ lc.placement[At(lc.vars, i)] = g)

\* lines 324-331; ord is the order in which layouts.iter() yields the keys
children_prev_circuits(lc, f, ord, g) ==
    LET sel == SelectSeq(ord, LAMBDA x : /\ f.layouts_subs_arr[x] # <<>>
                                         /\ lc.placement[At(f.layouts_subs_arr[x], 0)] = g)
    IN  [k \in DOMAIN sel |-> f.layouts[sel[k]]]

\* lines 332-338
children_nodes(lc, g) ==
    SelectSeq(IdsFrom(1, Len(lc.parent) - 1), LAMBDA i : At(lc.parent, i) = g)

\* lines 339-347: placements[g], [status, res] as merge_layouts gives it
RECURSIVE placements(_, _, _, _)
placements(lc, f, ord, g) ==
    LET sub == [k \in DOMAIN children_nodes(lc, g) |->
                   placements(lc, f, ord, children_nodes(lc, g)[k])]
    IN  IF \E k \in DOMAIN sub : sub[k].status # "ok"
        THEN [status |-> "panic_child", res |-> <<>>]
        ELSE merge_layouts([k \in DOMAIN sub |-> sub[k].res]
                               \o children_prev_circuits(lc, f, ord, g),
                           children_variables(lc, g), TRUE)

\* the request that names the enclosing circuit instead of the callee
middle_req_self(f, id) ==
    LayerReq(f.req.circuit_id,
             IF f.req.layer < At(f.ic.subs, id).start_layer THEN -1
             ELSE f.req.layer - At(f.ic.subs, id).start_layer)

\* lines 368-373
middle_req(f, id) ==
    LayerReq(At(f.ic.subs, id).sub_circuit_id,
             IF f.req.layer < At(f.ic.subs, id).start_layer THEN -1
             ELSE f.req.layer - At(f.ic.subs, id).start_layer)

\* lines 379-383
sparse_sizes(pool, f) ==
    <<Len(f.root)>> \o [k \in DOMAIN f.middle_layouts |-> At(pool, f.middle_layouts[k]).size]

\* the comparator that keeps the index order
SizeBefore_index_only(sizes, i, j) == i <= j

\* lines 388-393
SizeBefore(sizes, i, j) ==
    IF At(sizes, i) # At(sizes, j) THEN At(sizes, i) > At(sizes, j) ELSE i <= j

RECURSIVE SortSizes(_, _)
SortSizes(sizes, I) ==
    IF I = {} THEN <<>>
    ELSE LET i == CHOOSE i \in I : \A j \in I : SizeBefore(sizes, i, j)
         IN  <<i>> \o SortSizes(sizes, I \ {i})

\* lines 397-417 for one element i of order; acc = [cur, placement, sub_layout]
sparse_step(f, sizes, i, acc) ==
    IF i = 0
    THEN IF \A j \in DOMAIN f.root : f.root[j] = EMPTY
         THEN acc
         ELSE [acc EXCEPT
                 !.cur = @ + At(sizes, 0),
                 !.placement =
                     [slot \in {acc.cur + j : j \in {j \in 0 .. Len(f.root) - 1 :
                                                        At(f.root, j) # EMPTY}}
                         |-> At(f.root, slot - acc.cur)] @@ @]
    ELSE [acc EXCEPT
            !.cur = @ + At(sizes, i),
            !.sub_layout =
                Append(@, SubLayout(At(f.middle_layouts, i - 1), acc.cur,
                                    At(f.ic.subs, At(Lc(f).middle_sub_circuits, i - 1)).insn_id))]

RECURSIVE sparse_steps(_, _, _, _)
sparse_steps(f, sizes, order, acc) ==
    IF order = <<>> THEN acc
    ELSE sparse_steps(f, sizes, Tail(order), sparse_step(f, sizes, Head(order), acc))

\* lines 379-429
sparse_layout(pool, f) ==
    LET acc == sparse_steps(f, sparse_sizes(pool, f),
                            SortSizes(sparse_sizes(pool, f),
                                      0 .. Len(sparse_sizes(pool, f)) - 1),
                            [cur |-> 0, placement |-> EmptyMap, sub_layout |-> <<>>])
    IN  LayerLayout(f.req.circuit_id, f.req.layer, next_power_of_two(acc.cur),
                    Sparse(acc.placement, acc.sub_layout))

(* SpecSolve: a compile context is loaded, every circuit is prepared, and  *)
(* the driver asks for layouts; each call of solve_layer_layout is a frame *)
(* of the stack and runs up to its next nested call in one step.           *)

MaxRequests == 2

Requests(cs) ==
    UNION {{LayerReq(c, l) : l \in -1 .. cs[c].output_layer} : c \in DOMAIN cs}

InitSolve ==
    /\ ctx \in DOMAIN Contexts
    /\ circuits = Contexts[ctx]
    /\ layer_req_to_layout = EmptyMap
    /\ layer_layout_pool = <<>>
    /\ stack = <<>>
    /\ ret = 0
    /\ s_pc = "prepare"
    /\ s_log = <<>>
    /\ HintIdle
    /\ MergeIdle

\* prepare_layer_layout_context(circuit_id), once per circuit
Prepare ==
    /\ s_pc = "prepare"
    /\ \E c \in DOMAIN circuits :
         /\ circuits[c].lcs = <<>>
         /\ circuits' = [circuits EXCEPT ![c] = prepare_layer_layout_context(circuits, c)]
         /\ s_pc' = IF \A d \in DOMAIN circuits \ {c} : circuits[d].lcs # <<>>
                    THEN "idle" ELSE "prepare"
    /\ UNCHANGED <<ctx, layer_req_to_layout, layer_layout_pool, stack, ret, s_log,
                   hvars, mvars>>

\* the driver calls solve_layer_layout(req)
SolveCall ==
    /\ s_pc = "idle"
    /\ Len(s_log) < MaxRequests
    /\ \E req \in Requests(circuits) : stack' = <<Frame(req)>>
    /\ s_pc' = "run"
    /\ UNCHANGED <<ctx, circuits, layer_req_to_layout, layer_layout_pool, ret, s_log,
                   hvars, mvars>>

\* the innermost call returns id to its caller
Return(id) ==
    /\ stack' = SubSeq(stack, 1, Len(stack) - 1)
    /\ ret' = id
    /\ s_log' = IF Len(stack) = 1 THEN Append(s_log, [req |-> Top.req, id |-> id]) ELSE s_log
    /\ s_pc' = IF Len(stack) = 1 THEN "idle" ELSE s_pc

\* lines 235-237
AddAndReturn(res) ==
    /\ layer_layout_pool' = pool_add(layer_layout_pool, res).pool
    /\ layer_req_to_layout' =
          MapInsert(layer_req_to_layout, Top.req, pool_add(layer_layout_pool, res).id)
    /\ Return(pool_add(layer_layout_pool, res).id)

\* lines 227-229
SolveMemoHit ==
    /\ s_pc = "run"
    /\ Top.pc = "entry"
    /\ memo_get(layer_req_to_layout, Top.req) # <<>>
    /\ Return(memo_get(layer_req_to_layout, Top.req)[1])
    /\ UNCHANGED <<ctx, circuits, layer_req_to_layout, layer_layout_pool, hvars, mvars>>

\* lines 230-237 with req.layer < 0
SolveHintRelay ==
    /\ s_pc = "run"
    /\ Top.pc = "entry"
    /\ memo_get(layer_req_to_layout, Top.req) = <<>>
    /\ Top.req.layer < 0
    /\ IF Top.req.circuit_id \in DOMAIN circuits
       THEN AddAndReturn(solve_layer_layout_hint_relay(circuits, Top.req))
       ELSE /\ s_pc' = "panic_no_circuit"
            /\ UNCHANGED <<layer_req_to_layout, layer_layout_pool, stack, ret, s_log>>
    /\ UNCHANGED <<ctx, circuits, hvars, mvars>>

\* lines 255-262: the circuit is moved out of the map; the keys of
\* prev_circuit_num_out will be walked in some order
SolveNormalEnter ==
    /\ s_pc = "run"
    /\ Top.pc = "entry"
    /\ memo_get(layer_req_to_layout, Top.req) = <<>>
    /\ Top.req.layer >= 0
    /\ IF Top.req.circuit_id \in DOMAIN circuits
       THEN /\ circuits' = [c \in DOMAIN circuits \ {Top.req.circuit_id} |-> circuits[c]]
            /\ \E order \in Perms(DOMAIN At(circuits[Top.req.circuit_id].lcs,
                                            Top.req.layer).prev_circuit_num_out) :
                  stack' = SetTop([Top EXCEPT !.pc = "prev",
                                              !.ic = circuits[Top.req.circuit_id],
                                              !.todo = order])
            /\ s_pc' = s_pc
       ELSE /\ s_pc' = "panic_no_circuit"
            /\ UNCHANGED <<circuits, stack>>
    /\ UNCHANGED <<ctx, layer_req_to_layout, layer_layout_pool, ret, s_log, hvars, mvars>>

\* lines 262-278: the next key, and the nested call for it
SolvePrevCall ==
    /\ s_pc = "run"
    /\ Top.pc = "prev"
    /\ Top.todo # <<>>
    /\ IF prev_is_relay(Top, Head(Top.todo))
          \/ prev_insn(Top, Head(Top.todo)).sub_circuit_id \in DOMAIN circuits
       THEN /\ stack' = Append(SetTop([Top EXCEPT !.pc = "prev_ret"]),
                               Frame(LayerReq(prev_insn(Top, Head(Top.todo)).sub_circuit_id,
                                              prev_sub_layer(circuits, Top, Head(Top.todo)))))
            /\ s_pc' = s_pc
       ELSE /\ s_pc' = "panic_no_circuit"
            /\ UNCHANGED stack
    /\ UNCHANGED <<ctx, circuits, layer_req_to_layout, layer_layout_pool, ret, s_log,
                   hvars, mvars>>

\* lines 279-314: the nested call returned ret
SolvePrevReturn ==
    /\ s_pc = "run"
    /\ Top.pc = "prev_ret"
    /\ LET x_ == Head(Top.todo)
           layout == At(layer_layout_pool, ret)
       IN  IF layout.inner.kind # "Dense"
           THEN /\ s_pc' = "panic_not_dense"
                /\ UNCHANGED stack
           ELSE IF OutOfRange \in Range(prev_layout(circuits, Top, x_, layout.inner.placement))
           THEN /\ s_pc' = "panic_index"
                /\ UNCHANGED stack
           ELSE /\ stack' = SetTop([Top EXCEPT
                      !.pc = "prev",
                      !.todo = Tail(@),
                      !.layouts = MapInsert(@, prev_x(Top, x_),
                                      prev_layout(circuits, Top, x_, layout.inner.placement)),
                      !.layouts_subs_arr = MapInsert(@, prev_x(Top, x_), prev_subs_arr(Top, x_))])
                /\ s_pc' = s_pc
    /\ UNCHANGED <<ctx, circuits, layer_req_to_layout, layer_layout_pool, ret, s_log,
                   hvars, mvars>>

\* lines 317-364 without middle sub-circuits: the Dense layout
SolveDense ==
    /\ s_pc = "run"
    /\ Top.pc = "prev"
    /\ Top.todo = <<>>
    /\ Lc(Top).middle_sub_circuits = <<>>
    /\ \E ord \in Perms(DOMAIN Top.layouts) :
         IF placements(Lc(Top), Top, ord, 0).status # "ok"
         THEN /\ s_pc' = "panic_merge"
              /\ UNCHANGED <<circuits, layer_req_to_layout, layer_layout_pool, stack, ret, s_log>>
         ELSE /\ circuits' = circuits_insert(circuits, Top.req.circuit_id, Top.ic)
              /\ AddAndReturn(LayerLayout(Top.req.circuit_id, Top.req.layer,
                                          Len(placements(Lc(Top), Top, ord, 0).res),
                                          Dense(placements(Lc(Top), Top, ord, 0).res)))
    /\ UNCHANGED <<ctx, hvars, mvars>>

\* lines 317-366 with middle sub-circuits: placements[0] is kept
SolveRoot ==
    /\ s_pc = "run"
    /\ Top.pc = "prev"
    /\ Top.todo = <<>>
    /\ Lc(Top).middle_sub_circuits # <<>>
    /\ \E ord \in Perms(DOMAIN Top.layouts) :
         IF placements(Lc(Top), Top, ord, 0).status # "ok"
         THEN /\ s_pc' = "panic_merge"
              /\ UNCHANGED stack
         ELSE /\ stack' = SetTop([Top EXCEPT !.pc = "middle",
                                             !.root = placements(Lc(Top), Top, ord, 0).res])
              /\ s_pc' = s_pc
    /\ UNCHANGED <<ctx, circuits, layer_req_to_layout, layer_layout_pool, ret, s_log,
                   hvars, mvars>>

\* lines 367-378: the nested call for the next middle sub-circuit
SolveMiddleCall ==
    /\ s_pc = "run"
    /\ Top.pc = "middle"
    /\ Len(Top.middle_layouts) < Len(Lc(Top).middle_sub_circuits)
    /\ stack' = Append(SetTop([Top EXCEPT !.pc = "middle_ret"]),
                       Frame(middle_req(Top, At(Lc(Top).middle_sub_circuits,
                                                Len(Top.middle_layouts)))))
    /\ UNCHANGED <<ctx, circuits, layer_req_to_layout, layer_layout_pool, ret, s_pc, s_log,
                   hvars, mvars>>

\* line 374: middle_layouts.push(ret)
SolveMiddleReturn ==
    /\ s_pc = "run"
    /\ Top.pc = "middle_ret"
    /\ stack' = SetTop([Top EXCEPT !.pc = "middle", !.middle_layouts = Append(@, ret)])
    /\ UNCHANGED <<ctx, circuits, layer_req_to_layout, layer_layout_pool, ret, s_pc, s_log,
                   hvars, mvars>>

\* lines 379-429: the Sparse layout
SolveSparse ==
    /\ s_pc = "run"
    /\ Top.pc = "middle"
    /\ Len(Top.middle_layouts) = Len(Lc(Top).middle_sub_circuits)
    /\ circuits' = circuits_insert(circuits, Top.req.circuit_id, Top.ic)
    /\ AddAndReturn(sparse_layout(layer_layout_pool, Top))
    /\ UNCHANGED <<ctx, hvars, mvars>>

NextSolve ==
    \/ Prepare
    \/ SolveCall
    \/ SolveMemoHit
    \/ SolveHintRelay
    \/ SolveNormalEnter
    \/ SolvePrevCall
    \/ SolvePrevReturn
    \/ SolveDense
    \/ SolveRoot
    \/ SolveMiddleCall
    \/ SolveMiddleReturn
    \/ SolveSparse

SpecSolve == InitSolve /\ [][NextSolve]_vars

\* the steps of a call that was made
SolveStep ==
    \/ SolveMemoHit
    \/ SolveHintRelay
    \/ SolveNormalEnter
    \/ SolvePrevCall
    \/ SolvePrevReturn
    \/ SolveDense
    \/ SolveRoot
    \/ SolveMiddleCall
    \/ SolveMiddleReturn
    \/ SolveSparse

\* the steps that only make or end a nested call
SolveCallStep ==
    \/ SolveMemoHit
    \/ SolvePrevCall
    \/ SolveMiddleCall
    \/ SolveMiddleReturn

\* The pass is sequential and synchronous: a call that was made runs on, so
\* the steps of the solver are weakly fair.  For SolveStep as a whole the
\* condition is WF_vars(SolveStep) with ENABLED <<SolveStep>>_vars written
\* out as s_pc = "run": every solver step changes the stack or s_pc, and
\* RunCanStep states that one is possible whenever a call is running.
SolveFair ==
    /\ WF_vars(SolveCallStep)
    /\ ([]<>(s_pc # "run") \/ []<><<SolveStep>>_vars)

SpecSolveLive == InitSolve /\ [][NextSolve]_vars /\ SolveFair

-----------------------------------------------------------------------------
(* Properties of the hint-normalization pass (checked under SpecHint)      *)

\* the instruction just processed, its operands' values on entry
InTag == hres.in.tag
Pushed(tag) == hpc = "pushed" /\ InTag = tag
Unknown(v) == pre.cval[v] = {}
PreVal(v) == Val(pre.vals, v)
\* the values of the variables the driver bound to the instruction's outputs
ResultVals(n) == SubSeq(bld.vals, Len(bld.vals) - n + 1, Len(bld.vals))
\* value of the variable of the last constraint the transform asserted
LastConVal(B) == Val(B.vals, B.cons[Len(B.cons)])

\* C1: whenever evaluating the source instruction (or constraint) succeeds,
\* evaluating what the pass emitted for it with honestly computed hints
\* succeeds too (every hint has an honest value, every raw constraint is
\* zero) and binds the same output values.
C1_SemanticEquivalence ==
    /\ hpc = "pushed" =>
          LET src == SrcEval(hres.in, pre.vals, oracle)
          IN  src.ok =>
                 /\ ~bld.hinterr
                 /\ bld.honest => /\ OutConstraintsHold(bld)
                                  /\ ResultVals(Len(src.out)) = src.out
    /\ hpc = "con" =>
          (SrcConHolds(hres.in, pre.vals) =>
                 /\ ~bld.hinterr
                 /\ bld.honest => OutConstraintsHold(bld))

\* C1 without the two rewrites that break it (Xor, and unchecked division
\* by a zero that is not a literal): the remaining rewrites are equivalent
C1_EquivalenceElsewhere ==
    \/ (hpc = "pushed" /\ InTag = "BoolBinOp" /\ hres.in.op = "Xor")
    \/ (hpc = "pushed" /\ InTag = "Div" /\ ~hres.in.checked
           /\ Unknown(hres.in.y) /\ PreVal(hres.in.y) = FZero)
    \/ C1_SemanticEquivalence

\* C2: the output of BoolBinOp{x,y,Xor} is (x+y) - 2*(x*y)
C2_XorOutput ==
    (Pushed("BoolBinOp") /\ hres.in.op = "Xor") =>
        LET x == PreVal(hres.in.x)
            y == PreVal(hres.in.y)
        IN  ResultVals(1) = <<FSub(FAdd(x, y), FMul(FAdd(FOne, FOne), FMul(x, y)))>>

\* C3: for IsZero(x) with x not a literal, the bound output m is 1 - x*inv
\* for the hint's value inv, the asserted variable is x*m, and whenever
\* x*m = 0 holds m is 1 for x = 0 and 0 otherwise; and some hint value
\* makes x*m = 0 hold
C3_IsZeroSound ==
    /\ (Pushed("IsZero") /\ Unknown(hres.in.x)) =>
          LET x == hres.in.x
              m == hres.res.terms[1].var
              xm == bld.cons[Len(bld.cons)]
          IN  /\ hres.res = copy(m)
              /\ Len(bld.cons) = Len(pre.cons) + 1
              /\ bld.insns[xm] = I_Mul(<<x, m>>)
              /\ bld.vals[m] = FSub(FOne, FMul(PreVal(x), oracle[1]))
              /\ (bld.vals[xm] = FZero => bld.vals[m] = B2F(PreVal(x) = FZero))
    /\ (hpc = "ready" /\ bld.cval[1] = {}) =>
          \E hv \in F :
             LastConVal(ApplySteps(bld, transform_in_to_out(bld, I_IsZero(1)).steps, <<hv>>)) = FZero

C3_Witness ==
    /\ Pushed("IsZero") /\ Unknown(hres.in.x)
    /\ PreVal(hres.in.x) # FZero
    /\ LastConVal(bld) = FZero
    /\ ResultVals(1) = <<FZero>>

\* the constraint Div{x,y,false} emitted when y is not a literal
DivUncheckedCase == Pushed("Div") /\ ~hres.in.checked /\ Unknown(hres.in.y)
DivUncheckedSatisfiable(B) ==
    \E q \in F :
       LastConVal(ApplySteps(B, transform_in_to_out(B, I_Div(1, 2, FALSE)).steps, <<q>>)) = FZero

\* C4 as claimed: for every x, y some hint value q satisfies y*q - x = 0,
\* and every q satisfying it is the source result (0 when y = 0, else x/y)
C4_DivUncheckedPreserves ==
    /\ DivUncheckedCase =>
          (LastConVal(bld) = FZero =>
              <<oracle[1]>> = SrcEval(hres.in, pre.vals, oracle).out)
    /\ (hpc = "ready" /\ bld.cval[2] = {}) => DivUncheckedSatisfiable(bld)

\* C4 amended: the output is bound to q and the asserted value is y*q - x;
\* for y # 0 it is zero exactly for q = x/y; for y = 0 it is zero exactly
\* when x = 0, whatever q is
C4_DivUncheckedAmended ==
    /\ DivUncheckedCase =>
          LET x == PreVal(hres.in.x)
              y == PreVal(hres.in.y)
              q == oracle[1]
          IN  /\ hres.res = copy(Len(pre.vals) + 1)
              /\ ResultVals(1) = <<q>>
              /\ Len(bld.cons) = Len(pre.cons) + 1
              /\ LastConVal(bld) = FSub(FMul(y, q), x)
              /\ y # FZero => (LastConVal(bld) = FZero <=> q = FDiv(x, y))
              /\ y = FZero => (LastConVal(bld) = FZero <=> x = FZero)
    /\ (hpc = "ready" /\ bld.cval[2] = {}) =>
          (DivUncheckedSatisfiable(bld) <=> (bld.vals[2] # FZero \/ bld.vals[1] = FZero))

\* y = 0, x = 0: the constraint holds although q is not the source's 0
C4_Witness ==
    /\ DivUncheckedCase
    /\ PreVal(hres.in.y) = FZero /\ PreVal(hres.in.x) = FZero
    /\ LastConVal(bld) = FZero
    /\ oracle[1] # FZero

\* C5: every failure of the pass is an Err value: the pass never aborts,
\* and a failed pass returns the message only
C5_FailuresAreErr ==
    /\ hpc # "panic"
    /\ ~hres.panic
    /\ (hpc = "returned" /\ hres.err # "") => (hres.ret = "Err" /\ bld = EmptyBuilder)

\* C6: Div whose divisor is the literal c: c = 0 gives
\* Err("division by zero constant") with the builder untouched; c # 0 pushes
\* one constant, the inverse of c, and returns Mul(x, that constant), adding
\* no hint, no constraint and no mark
C6_DivLiteral ==
    (InTag = "Div" /\ hpc \in {"pushed", "err", "panic"} /\ ~Unknown(hres.in.y)) =>
        LET c == Some(pre.cval[hres.in.y])
            k == Len(pre.vals) + 1
        IN  IF c = FZero
            THEN /\ hpc = "err"
                 /\ hres.err = "division by zero constant"
                 /\ bld = pre
            ELSE /\ hpc = "pushed"
                 /\ Len(bld.insns) = Len(pre.insns) + 2
                 /\ SubSeq(bld.insns, 1, Len(pre.insns)) = pre.insns
                 /\ bld.insns[k].tag = "ConstantOrRandom"
                 /\ bld.insns[k].coef.kind = "Constant"
                 /\ FMul(bld.insns[k].coef.c, c) = FOne
                 /\ bld.cval[k] = {bld.insns[k].coef.c}
                 /\ hres.res = I_Mul(<<hres.in.x, k>>)
                 /\ bld.insns[k + 1] = hres.res
                 /\ bld.cons = pre.cons
                 /\ bld.marks = pre.marks

C6_Witness ==
    /\ InTag = "Div" /\ hpc = "err"
    /\ pre.cval[hres.in.y] = {FZero}

\* C7: LinComb, Mul, Hint, ConstantOrRandom and SubCircuitCall come back
\* with the same tag and fields and nothing else is pushed, asserted or
\* marked; a circuit made of such instructions only is emitted unchanged,
\* instruction by instruction
C7_PassThrough ==
    /\ (InTag \in OutTags /\ hpc # "ready") => hpc \in {"pushed", "returned"}
    /\ (hpc = "pushed" /\ InTag \in OutTags) =>
          /\ hres.res = hres.in
          /\ bld.insns = Append(pre.insns, hres.in)
          /\ bld.cons = pre.cons
          /\ bld.marks = pre.marks
          /\ (\A i \in DOMAIN in_insns : in_insns[i].tag \in OutTags) => bld.insns = in_insns

C7_Witness ==
    /\ Pushed("LinComb")
    /\ Len(hres.in.terms) = 2
    /\ hres.in.constant = FOne
    /\ bld.insns[Len(bld.insns)] = hres.in

-----------------------------------------------------------------------------
(* Properties of merge_layouts (checked under SpecMerge)                   *)

\* the group of log entry e lies in res at offset e.off, a multiple of its
\* length, with each of its non-EMPTY entries at its own slot
PlacedAt(e) ==
    LET pg == m_s[e.g]
    IN  /\ e.off % Len(pg) = 0
        /\ e.off + Len(pg) <= Len(m_res)
        /\ \A j \in 0 .. Len(pg) - 1 : At(pg, j) # EMPTY => At(m_res, e.off + j) = At(pg, j)

\* C9: when every group length is a power of two (or the group is empty),
\* merge_layouts never aborts on |res| % |pg| # 0, and every non-empty
\* group has one offset o, a multiple of its length, such that the result
\* holds pg[j] at slot o + j for every non-EMPTY pg[j]
C9_GroupAlignment ==
    (\A i \in DOMAIN m_s : Len(m_s[i]) = 0 \/ IsPowerOfTwo(Len(m_s[i]))) =>
        /\ m_pc \notin {"panic_align", "panic_pow2"}
        /\ \A k \in DOMAIN m_log : PlacedAt(m_log[k])
        /\ m_pc = "done" =>
              /\ {m_log[k].g : k \in DOMAIN m_log} = {i \in DOMAIN m_s : Len(m_s[i]) > 0}
              /\ Len(m_log) = Cardinality({i \in DOMAIN m_s : Len(m_s[i]) > 0})

\* a finished call in which the second group was laid over the EMPTY slots
\* of the first one, at an offset other than 0
C9_Witness ==
    /\ m_pc = "done"
    /\ Len(m_log) = 2
    /\ \E k \in DOMAIN m_log :
          /\ ~m_log[k].appended
          /\ m_log[k].off > 0
          /\ \E j \in DOMAIN m_s[m_log[k].g] : m_s[m_log[k].g][j] # EMPTY

-----------------------------------------------------------------------------
(* Properties of the layout solver (checked under SpecSolve)               *)

\* the non-EMPTY entries a layout holds
LayoutEntries(L) ==
    IF L.inner.kind = "Dense" THEN Range(L.inner.placement) \ {EMPTY}
    ELSE Range(L.inner.placement)

\* the layout a memoised request was answered with
LayoutOf(req) == At(layer_layout_pool, layer_req_to_layout[req])

\* C8: every layout the solver returned (each is in the pool, under the
\* handle the memo holds), Dense or Sparse, layer -1 included, has a size
\* that is a power of two and at least the number of distinct non-EMPTY
\* entries it holds; the size of a Dense layout is the length of its
\* placement array
C8_LayoutSize ==
    /\ \A req \in DOMAIN layer_req_to_layout :
          layer_req_to_layout[req] \in 0 .. Len(layer_layout_pool) - 1
    /\ \A h \in DOMAIN layer_layout_pool :
          /\ IsPowerOfTwo(layer_layout_pool[h].size)
          /\ layer_layout_pool[h].size >= Cardinality(LayoutEntries(layer_layout_pool[h]))
          /\ layer_layout_pool[h].inner.kind = "Dense" =>
                layer_layout_pool[h].size = Len(layer_layout_pool[h].inner.placement)
          /\ layer_layout_pool[h].inner.kind = "Sparse" =>
                \A slot \in DOMAIN layer_layout_pool[h].inner.placement :
                    slot < layer_layout_pool[h].size

\* the solver has returned a Sparse layout with root variables, a hint-relay
\* layout and a Dense layout padded with EMPTY
C8_Witness ==
    /\ \E h \in DOMAIN layer_layout_pool :
          /\ layer_layout_pool[h].inner.kind = "Sparse"
          /\ layer_layout_pool[h].inner.placement # EmptyMap
          /\ layer_layout_pool[h].inner.sub_layout # <<>>
    /\ \E h \in DOMAIN layer_layout_pool :
          /\ layer_layout_pool[h].layer = -1
          /\ layer_layout_pool[h].size >= 2
    /\ \E h \in DOMAIN layer_layout_pool :
          /\ layer_layout_pool[h].inner.kind = "Dense"
          /\ layer_layout_pool[h].layer >= 0
          /\ EMPTY \in Range(layer_layout_pool[h].inner.placement)
          /\ LayoutEntries(layer_layout_pool[h]) # {}

\* C10 as claimed: two requests whose layouts have the same size and the
\* same inner placement got the same handle, and the pool holds a single
\* entry for them
C10_PoolDedup ==
    /\ \A r1, r2 \in DOMAIN layer_req_to_layout :
          (LayoutOf(r1).size = LayoutOf(r2).size /\ LayoutOf(r1).inner = LayoutOf(r2).inner)
             => layer_req_to_layout[r1] = layer_req_to_layout[r2]
    /\ \A h1, h2 \in DOMAIN layer_layout_pool :
          (/\ layer_layout_pool[h1].size = layer_layout_pool[h2].size
           /\ layer_layout_pool[h1].inner = layer_layout_pool[h2].inner) => h1 = h2

\* C10 amended: a layout carries the circuit id and the layer of its
\* request, and the pool compares all four fields: two requests get the
\* same handle exactly when their layouts agree in circuit_id, layer, size
\* and inner, which happens only when they are the same request; the pool
\* never holds two equal entries, and asking again gives the same handle
C10_PoolDedupAmended ==
    /\ \A r1, r2 \in DOMAIN layer_req_to_layout :
          /\ LayoutOf(r1).circuit_id = r1.circuit_id
          /\ LayoutOf(r1).layer = r1.layer
          /\ (layer_req_to_layout[r1] = layer_req_to_layout[r2]) <=> (LayoutOf(r1) = LayoutOf(r2))
          /\ (layer_req_to_layout[r1] = layer_req_to_layout[r2]) => r1 = r2
    /\ \A h1, h2 \in DOMAIN layer_layout_pool :
          layer_layout_pool[h1] = layer_layout_pool[h2] => h1 = h2
    /\ \A i, j \in DOMAIN s_log :
          (s_log[i].req = s_log[j].req) <=> (s_log[i].id = s_log[j].id)

\* the driver has been answered two requests for different circuits whose
\* layouts have the same size and the same inner placement
C10_Witness ==
    \E i, j \in DOMAIN s_log :
        /\ s_log[i].req.circuit_id # s_log[j].req.circuit_id
        /\ s_log[i].req \in DOMAIN layer_req_to_layout
        /\ s_log[j].req \in DOMAIN layer_req_to_layout
        /\ LayoutOf(s_log[i].req).size = LayoutOf(s_log[j].req).size
        /\ LayoutOf(s_log[i].req).inner = LayoutOf(s_log[j].req).inner

\* the innermost call is at the entry of solve_layer_layout and its request
\* is in the memo table
AtMemoisedEntry ==
    /\ s_pc = "run"
    /\ stack # <<>>
    /\ Top.pc = "entry"
    /\ Top.req \in DOMAIN layer_req_to_layout

\* C11: once a request has been answered with handle h, the memo table
\* keeps h for it and the pool keeps the layout under every handle, in
\* every later step; a call whose request is memoised returns that handle
\* in its next step, without entering the solver and without changing the
\* pool, the memo table or the circuit map; so the driver gets the same
\* handle each time it repeats a request
C11_Memoization ==
    [][/\ \A req \in DOMAIN layer_req_to_layout :
             /\ req \in DOMAIN layer_req_to_layout'
             /\ layer_req_to_layout'[req] = layer_req_to_layout[req]
       /\ Len(layer_layout_pool') >= Len(layer_layout_pool)
       /\ \A h \in DOMAIN layer_layout_pool : layer_layout_pool'[h] = layer_layout_pool[h]
       /\ AtMemoisedEntry =>
             /\ stack' = SubSeq(stack, 1, Len(stack) - 1)
             /\ ret' = layer_req_to_layout[Top.req]
             /\ UNCHANGED <<layer_layout_pool, layer_req_to_layout, circuits>>
       /\ \A i, j \in DOMAIN s_log' :
             s_log'[i].req = s_log'[j].req => s_log'[i].id = s_log'[j].id
      ]_vars

\* the driver repeated a request whose first answer took nested calls, and
\* got the same handle with the pool and the memo table left as they were
C11_Witness ==
    /\ Len(s_log) = 2
    /\ s_log[1].req = s_log[2].req
    /\ s_log[1].id = s_log[2].id
    /\ s_log[1].req.layer >= 0
    /\ Len(layer_layout_pool) >= 2
    /\ \E r \in DOMAIN layer_req_to_layout : r # s_log[1].req

\* the slots of the root placement of layout L that hold x
RootSlots(L, x) == {k \in DOMAIN L.inner.placement : L.inner.placement[k] = x}

\* some sub-call of the context relays hint inputs to a callee whose output
\* layer is 0: its outputs live on the layer of its hint inputs
SameLayerRelay(cs) ==
    \E c \in DOMAIN cs : \E i \in DOMAIN cs[c].subs :
        /\ cs[c].subs[i].hint_inputs # <<>>
        /\ cs[cs[c].subs[i].sub_circuit_id].output_layer = 0

\* C12: in the layout solved for a circuit and a layer >= 0, every index
\* of the layer's vars pool is in exactly one slot of the root placement
\* and every other slot is EMPTY
C12_CompletePlacement ==
    \A req \in DOMAIN layer_req_to_layout :
        req.layer >= 0 =>
            LET n == Len(layer_vars(Contexts[ctx][req.circuit_id], req.layer))
            IN  /\ \A i \in 0 .. n - 1 : Cardinality(RootSlots(LayoutOf(req), i)) = 1
                /\ Range(LayoutOf(req).inner.placement) \subseteq (0 .. n - 1) \cup {EMPTY}

\* C12 where no sub-call has its outputs and its relayed hint inputs on
\* the same layer
C12_ElsewhereComplete ==
    ~SameLayerRelay(Contexts[ctx]) => C12_CompletePlacement

\* the innermost call has translated the layouts of all its predecessors
\* and is about to walk layouts.iter() (line 325)
AtLayoutsWalk ==
    /\ s_pc = "run"
    /\ stack # <<>>
    /\ Top.pc = "prev"
    /\ Top.todo = <<>>

\* the layout the call returns when layouts.iter() yields the keys in the
\* order ord and the layer has no middle sub-circuit
DenseLayoutFor(ord) ==
    LayerLayout(Top.req.circuit_id, Top.req.layer,
                Len(placements(Lc(Top), Top, ord, 0).res),
                Dense(placements(Lc(Top), Top, ord, 0).res))

\* C13: the layout solve_layer_layout produces for a context and a request
\* does not depend on the order in which a hash map is walked: two runs
\* that agree up to the walk of layouts and differ in its order return
\* structurally identical layouts
C13_Determinism ==
    AtLayoutsWalk =>
        \A o1, o2 \in Perms(DOMAIN Top.layouts) : DenseLayoutFor(o1) = DenseLayoutFor(o2)

\* (1) of section 4.2.1: all inputs of req are in the same group of lc
ReqSameGroup(lc, req) ==
    Cardinality({lc.placement[x] : x \in Range(req.input_ids)}) <= 1

\* (2) of section 4.2.1: every output of a predecessor that an input of req
\* refers to is among the inputs of req
ReqSplitFree(lc, req) ==
    \A x \in Range(req.input_ids) \cap DOMAIN lc.prev_circuit_insn_ids :
        \A y \in DOMAIN lc.prev_circuit_insn_ids :
            lc.prev_circuit_insn_ids[y] = lc.prev_circuit_insn_ids[x]
                => y \in Range(req.input_ids)

\* the context of a prepared layer before any of its requests was processed
BeforeRequests(lc) ==
    [lc EXCEPT !.placement = [x \in Range(lc.vars) |-> 0], !.parent = <<0>>]

\* request number k of the prepared layer lc was processed as section 4.2.1
\* says: a group is created exactly under (1) and (2), its parent is the
\* common group and the inputs move to it; otherwise nothing changes
RequestAsSpecified(lc, k) ==
    LET before == place_requests(BeforeRequests(lc), SubSeq(lc.req, 1, k - 1))
        after == place_request(before, lc.req[k])
        req == lc.req[k]
        np == Len(before.parent)
    IN  /\ (Len(after.parent) = np + 1) <=> (ReqSameGroup(before, req) /\ ReqSplitFree(before, req))
        /\ Len(after.parent) = np + 1 =>
              /\ \A x \in Range(req.input_ids) :
                    /\ after.parent[np + 1] = before.placement[x]
                    /\ after.placement[x] = np
              /\ \A x \in DOMAIN before.placement \ Range(req.input_ids) :
                    after.placement[x] = before.placement[x]
              /\ SubSeq(after.parent, 1, np) = before.parent
        /\ Len(after.parent) # np + 1 => after = before

\* the prepared layers of the circuits in the map, as <<circuit, layer>>
PreparedLayers ==
    UNION {{<<c, l>> : l \in DOMAIN circuits[c].lcs} : c \in DOMAIN circuits}

\* C14: the requests of every prepared layer are in sorted (insn_id,
\* input_ids) order and were processed in that order, each one as section
\* 4.2.1 says, whatever inputs it lists
C14_GroupConstruction ==
    \A cl \in PreparedLayers :
        LET lc == circuits[cl[1]].lcs[cl[2]]
        IN  /\ \A k \in 2 .. Len(lc.req) : ReqLeq(lc.req[k - 1], lc.req[k])
            /\ lc.placement = place_requests(BeforeRequests(lc), lc.req).placement
            /\ lc.parent = place_requests(BeforeRequests(lc), lc.req).parent
            /\ \A k \in DOMAIN lc.req : RequestAsSpecified(lc, k)

\* request number k of lc lists each of its inputs once and is not empty
PlainRequest(lc, k) ==
    /\ lc.req[k].input_ids # <<>>
    /\ Cardinality(Range(lc.req[k].input_ids)) = Len(lc.req[k].input_ids)

\* C14 for the requests that list at least one input and none twice
C14_PlainRequests ==
    \A cl \in PreparedLayers :
        LET lc == circuits[cl[1]].lcs[cl[2]]
        IN  \A k \in DOMAIN lc.req : PlainRequest(lc, k) => RequestAsSpecified(lc, k)

\* the circuits that active calls of solve_layer_layout_normal hold: a
\* frame past its entry has taken its circuit out of the map (line 256)
MovedOut == {stack[k].req.circuit_id : k \in {k \in DOMAIN stack : stack[k].pc # "entry"}}

\* C15: in the contexts tried (all acyclic) the map holds every circuit
\* but those of the active calls past line 256, each of which holds a
\* different one; so a call that has just been made never asks for a
\* circuit that is moved out, remove(..).unwrap() never fails, and when a
\* call returns, by the Dense or by the Sparse path, the callers below it
\* being what they were when it was made, the ids in the map are those of
\* its entry
C15_MoveOutReinsert ==
    /\ s_pc # "panic_no_circuit"
    /\ s_pc \in {"prepare", "idle", "run"} =>
          /\ DOMAIN circuits = DOMAIN Contexts[ctx] \ MovedOut
          /\ \A k \in DOMAIN stack :
                stack[k].pc = "entry" => stack[k].req.circuit_id \in DOMAIN circuits
          /\ \A j, k \in DOMAIN stack :
                (/\ stack[j].pc # "entry" /\ stack[k].pc # "entry"
                 /\ stack[j].req.circuit_id = stack[k].req.circuit_id) => j = k

\* two circuits are moved out at once while a third call is being made,
\* after calls have returned by the Sparse path and by the Dense path
C15_Witness ==
    /\ Len(stack) = 3
    /\ Cardinality(MovedOut) = 2
    /\ Top.pc = "entry"
    /\ \E h \in DOMAIN layer_layout_pool : layer_layout_pool[h].inner.kind = "Sparse"
    /\ \E h \in DOMAIN layer_layout_pool :
          layer_layout_pool[h].inner.kind = "Dense" /\ layer_layout_pool[h].layer >= 0

\* the innermost call has the layouts of all middle sub-circuits of its
\* layer and returns the Sparse layout in its next step
AtSparseReturn ==
    /\ s_pc = "run"
    /\ stack # <<>>
    /\ Top.pc = "middle"
    /\ Len(Top.middle_layouts) = Len(Lc(Top).middle_sub_circuits)

\* region 0 is the root placement, region i >= 1 the layout of middle
\* sub-circuit number i; RegionSize(a) is its size
RegionSize(a) ==
    IF a = 0 THEN Len(Top.root) ELSE layer_layout_pool[Top.middle_layouts[a] + 1].size

\* a comes before b: the larger region first, the lower index on a tie
RegionFirst(a, b) ==
    \/ RegionSize(a) > RegionSize(b)
    \/ RegionSize(a) = RegionSize(b) /\ a < b

RECURSIVE RegionSum(_)
RegionSum(R) ==
    IF R = {} THEN 0
    ELSE LET a == CHOOSE a \in R : TRUE IN RegionSize(a) + RegionSum(R \ {a})

\* the offset of region a when the regions R are laid side by side from
\* offset 0 in that order
RegionOffset(R, a) == RegionSum({b \in R : RegionFirst(b, a)})

\* the Sparse layout L is the composition of the regions R: each region
\* at its offset, aligned to its own size, the regions disjoint and inside
\* L, and L.size the next power of two of their summed sizes
SparseComposedOf(R, L) ==
    /\ L.inner.kind = "Sparse"
    /\ IF 0 \in R
       THEN L.inner.placement =
               [slot \in {RegionOffset(R, 0) + j :
                              j \in {j \in 0 .. Len(Top.root) - 1 : At(Top.root, j) # EMPTY}}
                   |-> At(Top.root, slot - RegionOffset(R, 0))]
       ELSE L.inner.placement = EmptyMap
    /\ Len(L.inner.sub_layout) = Len(Top.middle_layouts)
    /\ \A i \in DOMAIN Top.middle_layouts :
          \E k \in DOMAIN L.inner.sub_layout :
              L.inner.sub_layout[k] =
                  SubLayout(Top.middle_layouts[i], RegionOffset(R, i),
                            At(Top.ic.subs, At(Lc(Top).middle_sub_circuits, i - 1)).insn_id)
    /\ \A j, k \in DOMAIN L.inner.sub_layout :
          j < k => L.inner.sub_layout[j].offset < L.inner.sub_layout[k].offset
    /\ \A a \in R :
          /\ RegionOffset(R, a) % RegionSize(a) = 0
          /\ RegionOffset(R, a) + RegionSize(a) <= L.size
    /\ \A a, b \in R :
          a # b => \/ RegionOffset(R, a) + RegionSize(a) <= RegionOffset(R, b)
                   \/ RegionOffset(R, b) + RegionSize(b) <= RegionOffset(R, a)
    /\ L.size = next_power_of_two(RegionSum(R))

\* C16 as claimed: the Sparse layout a call returns is the composition of
\* the root region and all middle sub-layouts, in order of descending size
\* with the index as tiebreak, at consecutive offsets
C16_SparseComposition ==
    [][AtSparseReturn =>
          SparseComposedOf(0 .. Len(Top.middle_layouts), At(layer_layout_pool', ret'))]_vars

\* the regions that take room: every middle sub-layout, and the root
\* region when it holds a variable
PlacedRegions ==
    (IF \E j \in DOMAIN Top.root : Top.root[j] # EMPTY THEN {0} ELSE {})
        \cup (1 .. Len(Top.middle_layouts))

\* C16 amended: a root region whose slots are all EMPTY is left out, it
\* gets no offset and its size does not count; the Sparse layout is the
\* composition of the other regions as claimed
C16_SparseCompositionAmended ==
    [][AtSparseReturn => SparseComposedOf(PlacedRegions, At(layer_layout_pool', ret'))]_vars

\* the pool holds a Sparse layout whose root variable lies between two
\* middle sub-layouts, and one whose root region was left out
C16_Witness ==
    /\ \E h \in DOMAIN layer_layout_pool :
          /\ layer_layout_pool[h].inner.kind = "Sparse"
          /\ Len(layer_layout_pool[h].inner.sub_layout) = 2
          /\ \E slot \in DOMAIN layer_layout_pool[h].inner.placement :
                /\ layer_layout_pool[h].inner.sub_layout[1].offset < slot
                /\ slot < layer_layout_pool[h].inner.sub_layout[2].offset
    /\ \E h \in DOMAIN layer_layout_pool :
          /\ layer_layout_pool[h].inner.kind = "Sparse"
          /\ layer_layout_pool[h].inner.placement = EmptyMap

\* the length of the longest chain of sub-circuit calls below circuit c
RECURSIVE DagDepth(_, _)
DagDepth(cs, c) ==
    IF cs[c].subs = <<>> THEN 0
    ELSE LET below == {DagDepth(cs, cs[c].subs[i].sub_circuit_id) : i \in DOMAIN cs[c].subs}
         IN  1 + (CHOOSE d \in below : \A e \in below : d >= e)

\* the calls of solve_layer_layout never nest deeper than the chain of
\* sub-circuit calls below the circuit asked for, the request included
DepthBounded ==
    \A k \in DOMAIN stack :
        Len(stack) - k <= DagDepth(Contexts[ctx], stack[k].req.circuit_id)

\* while a call is running its innermost frame stands at a point from which
\* one of the solver steps goes on: nothing waits on anything else
RunCanStep ==
    s_pc = "run" =>
        /\ stack # <<>>
        /\ \/ Top.pc = "entry"
           \/ Top.pc = "prev"
           \/ Top.pc = "prev_ret" /\ Top.todo # <<>> /\ ret \in 0 .. Len(layer_layout_pool) - 1
           \/ Top.pc = "middle" /\ Len(Top.middle_layouts) <= Len(Lc(Top).middle_sub_circuits)
           \/ Top.pc = "middle_ret"

\* C17: in the contexts tried (all acyclic) the active calls of
\* solve_layer_layout are at most one more than the depth of the
\* sub-circuit graph below the requested circuit, and so for every call
\* below it; a running call can always take its next step; and the call
\* the driver made returns, which it does only after every call nested in
\* it has returned
C17_Termination ==
    /\ []DepthBounded
    /\ []RunCanStep
    /\ (s_pc = "run") ~> (s_pc = "idle")

\* three calls are active, as many as the chain of calls below the
\* requested circuit allows, after an earlier request had been answered
C17_Witness ==
    /\ Len(stack) = 3
    /\ Len(stack) = DagDepth(Contexts[ctx], stack[1].req.circuit_id) + 1
    /\ Len(s_log) >= 1

\* the innermost call has just got back the layout of a predecessor
AtPrevReturn ==
    /\ s_pc = "run"
    /\ stack # <<>>
    /\ Top.pc = "prev_ret"

\* the layouts a predecessor can be asked for: the callee's output layer,
\* or layer -1 for relayed hint inputs
PredecessorLayout(L) ==
    \/ L.layer = -1
    \/ L.layer = Contexts[ctx][L.circuit_id].output_layer

\* C18: prepare_layer_layout_context registers no sub-call as a middle
\* sub-circuit of the output layer of the circuit that makes it; every
\* layout in the pool for a circuit's output layer or for layer -1 is
\* Dense; the layout a predecessor call returns is one of these and is
\* Dense; and the abort on a non-Dense predecessor layout never happens
C18_PredecessorDense ==
    /\ s_pc # "panic_not_dense"
    /\ \A c \in DOMAIN circuits :
          circuits[c].lcs # <<>> =>
              At(circuits[c].lcs, circuits[c].output_layer).middle_sub_circuits = <<>>
    /\ \A h \in DOMAIN layer_layout_pool :
          PredecessorLayout(layer_layout_pool[h]) => layer_layout_pool[h].inner.kind = "Dense"
    /\ AtPrevReturn =>
          /\ PredecessorLayout(At(layer_layout_pool, ret))
          /\ At(layer_layout_pool, ret).inner.kind = "Dense"

\* a predecessor call has returned the output layer of a callee that has
\* middle sub-circuits on an inner layer
C18_Witness ==
    /\ AtPrevReturn
    /\ ~prev_is_relay(Top, Head(Top.todo))
    /\ At(layer_layout_pool, ret).inner.kind = "Dense"
    /\ \E l \in DOMAIN circuits[At(layer_layout_pool, ret).circuit_id].lcs :
          circuits[At(layer_layout_pool, ret).circuit_id].lcs[l].middle_sub_circuits # <<>>

\* a predecessor call has returned the layout of relayed hint inputs
C18_RelayWitness ==
    /\ AtPrevReturn
    /\ prev_is_relay(Top, Head(Top.todo))
    /\ At(layer_layout_pool, ret).layer = -1
    /\ At(layer_layout_pool, ret).size >= 1

-----------------------------------------------------------------------------
(* merge_layouts loses and duplicates nothing (checked under SpecMerge)    *)

\* the number of slots of res that hold x
Occurrences(res, x) == Cardinality({k \in DOMAIN res : res[k] = x})

\* the non-EMPTY entries of the groups, and the entries of additional
GroupEntries == UNION {Range(m_s[i]) \ {EMPTY} : i \in DOMAIN m_s}
AdditionalEntries == Range(m_add)

\* the arguments of the call hold every entry once
EntriesDistinct ==
    /\ \A i, j \in DOMAIN m_s :
          i # j => (Range(m_s[i]) \cap Range(m_s[j])) \ {EMPTY} = {}
    /\ \A i \in DOMAIN m_s : \A x \in Range(m_s[i]) \ {EMPTY} : Occurrences(m_s[i], x) = 1
    /\ \A x \in AdditionalEntries : Occurrences(m_add, x) = 1
    /\ GroupEntries \cap AdditionalEntries = {}
    /\ EMPTY \notin AdditionalEntries

\* one iteration of the loop over the groups has put pg into res
AtGroupPlaced == m_pc = "groups" /\ m_order # <<>> /\ m_pc' = "groups"

\* one iteration of the loop over additional
AtFill == m_pc = "groups" /\ m_order = <<>> /\ m_fill.k < Len(m_add)

\* the EMPTY slots of res, as indices from 0
EmptySlots(res) == {k \in 0 .. Len(res) - 1 : At(res, k) = EMPTY}

\* C19: with pairwise distinct entries in the groups and in additional,
\* placing a group changes no non-EMPTY slot of res and adds exactly the
\* group's non-EMPTY entries, each once; each additional variable goes to
\* the EMPTY slot of lowest index, or is appended when res has no EMPTY
\* slot; and the non-EMPTY entries of the result are exactly the groups'
\* non-EMPTY entries and the entries of additional, each in one slot
C19_NothingLostOrDuplicated ==
    [][EntriesDistinct =>
        /\ AtGroupPlaced =>
              /\ Len(m_res') >= Len(m_res)
              /\ \A k \in DOMAIN m_res : m_res[k] # EMPTY => m_res'[k] = m_res[k]
              /\ Range(m_res') \ {EMPTY} =
                    (Range(m_res) \cup Range(m_s[Head(m_order)])) \ {EMPTY}
              /\ \A x \in Range(m_res') \ {EMPTY} : Occurrences(m_res', x) = 1
        /\ AtFill =>
              LET x == m_add[m_fill.k + 1]
                  holes == EmptySlots(m_res)
              IN  IF holes = {}
                  THEN m_res' = Append(m_res, x)
                  ELSE m_res' = [m_res EXCEPT
                                   ![(CHOOSE k \in holes : \A h \in holes : k <= h) + 1] = x]
        /\ m_pc' = "done" =>
              /\ Range(m_res') \ {EMPTY} = GroupEntries \cup AdditionalEntries
              /\ \A x \in GroupEntries \cup AdditionalEntries : Occurrences(m_res', x) = 1
      ]_vars

\* where the groups end in res
GroupsExtent ==
    CHOOSE n \in {m_log[k].off + Len(m_s[m_log[k].g]) : k \in DOMAIN m_log} :
        \A k \in DOMAIN m_log : m_log[k].off + Len(m_s[m_log[k].g]) <= n

\* a finished call: the second group was laid over EMPTY slots of the first
\* behind its entries, the first additional variable went into the hole
\* the groups left and the second one was appended
C19_Witness ==
    /\ m_pc = "done"
    /\ Len(m_log) = 2
    /\ ~m_log[2].appended
    /\ m_log[2].off > 0
    /\ Range(m_s[m_log[2].g]) # {EMPTY}
    /\ Len(m_add) = 2
    /\ \E k \in DOMAIN m_res : m_res[k] = m_add[1] /\ k <= GroupsExtent
    /\ \E k \in DOMAIN m_res : m_res[k] = m_add[2] /\ k = GroupsExtent + 1

====
